---- MODULE Spec2Model ----
(***************************************************************************)
(* Model of the game-session engine of backend/src/gameService.js          *)
(* (class GameService): the registry of games, the player -> game index,   *)
(* the per-game interval timer, movement with node collisions, commits     *)
(* and the end-of-game resolution.                                         *)
(*                                                                         *)
(* Numbers.  Coordinates, sizes, values and scores are integers.  Energy   *)
(* moves in steps of 0.5 in the code, so the model stores energy in units  *)
(* of 0.5 (100 is stored as 200, the move cost 0.5 as 1).  The JavaScript  *)
(* values NaN, +Infinity and -Infinity are the sentinels NaN, PosInf and   *)
(* NegInf; every arithmetic helper below treats NaN as JavaScript does.    *)
(* NaN also stands for an argument whose numeric conversion is NaN (a      *)
(* field missing from the JSON body, a non-numeric string); Infinity       *)
(* reaches the handlers as the JSON number 1e999.                          *)
(***************************************************************************)
EXTENDS Integers, Sequences, FiniteSets, TLC

VARIABLES
    games,      \* this.games: sequence of games, game_<i> is games[i]
    players,    \* this.players: player id -> game number (0: no entry)
    gameId,     \* this.gameId: the next game number
    emitted,    \* the events emitted by the last operation, in order
    result,     \* the outcome of the last operation: "ok" or the Error message
    request,    \* the last operation and its arguments
    ops,        \* number of client requests served so far (bounds the model)
    clients,    \* index.js clients: the Map clientId -> socket, in insertion
                \* order, each socket with its readyState (open or not)
    sent,       \* the WebSocket messages sent by the last operation, in order
    hook        \* the clients' useRealTimeGame hooks: the commit messages
                \* they have sent that the server has not handled yet
                \* (inflight), and per player the number of commit actions
                \* taken through the hook (commits)

vars == <<games, players, gameId, emitted, result, request, ops, clients, sent,
          hook>>

----------------------------------------------------------------------------
(* Bounds of the model *)

MaxGames == 2
MaxOps == 3

(* Inputs *)

PlayerIds == {"p1", "p2"}

\* the ids that ask for a new game (the others join, move and commit)
Creators == {"p1"}

\* the display name a client sends with its id
NameOf(pid) == IF pid = "p1" THEN "ann" ELSE "bob"

Undefined == "undefined"

NaN == 0 - 777777
PosInf == 0 + 1000000
NegInf == 0 - 1000000

\* gameTime arguments of createGame
Durations == {0 - 1, 0, 1, 2}

\* (x, y) arguments of movePlayer
MoveTargets ==
    { <<404, 304>>, <<405, 300>>, <<406, 300>>, <<800, 300>>,
      <<0, 0>>, <<NaN, 306>>, <<PosInf, 300>> }

\* the spawn point Math.random() gives a joining player: one point of
\* [50, 750) x [50, 550), next to the nodes on the right of the arena
Spawns == { <<744, 306>> }

\* the client ids of the WebSocket connections
ConnIds == {"c1", "c2"}

\* the origin of a request that came by an HTTP route
Http == "http"

\* Date.now() while a request is served: requests are stamped by their number
Now == ops + 1

----------------------------------------------------------------------------
(* JavaScript arithmetic on numbers that may be NaN *)

Abs(a) == IF a < 0 THEN 0 - a ELSE a

Min2(a, b) == IF a < b THEN a ELSE b

Max2(a, b) == IF a > b THEN a ELSE b

\* Math.abs(a - b) > 5 : false when either operand is NaN
FarApart(a, b) == a /= NaN /\ b /= NaN /\ Abs(a - b) > 5

\* Math.max(lo, Math.min(hi, v)) : NaN when v is NaN
Clamp(lo, hi, v) == IF v = NaN THEN NaN ELSE Max2(lo, Min2(hi, v))

IsFinite(v) == v /= NaN /\ v /= PosInf /\ v /= NegInf

----------------------------------------------------------------------------
(* generateNodes: five nodes node_0 .. node_4 with random type, position,   *)
(* value in 50..249 and size in [20, 35).  The random source is modelled    *)
(* by the choice of one of the layouts below.                               *)

Node(i, t, px, py, v, sz) ==
    [id |-> i, x |-> px, y |-> py, type |-> t, value |-> v,
     isActive |-> TRUE, size |-> sz]

LayoutA ==
    << Node(0, "energy",     740, 300,  50, 20),
       Node(1, "commit",     745, 310, 200, 30),
       Node(2, "powerup",    109,  50, 249, 34),
       Node(3, "blockchain",  50,  50, 100, 20),
       Node(4, "powerup",    406, 300,  50, 20) >>

LayoutB ==
    << Node(0, "commit",     749, 300, 200, 20),
       Node(1, "blockchain", 749, 300, 249, 34),
       Node(2, "energy",      80,  70,  50, 20),
       Node(3, "powerup",     60,  60,  50, 20),
       Node(4, "energy",     410, 310, 120, 20) >>

Layouts == {LayoutA, LayoutB}

generateNodes == Layouts

----------------------------------------------------------------------------
(* Values *)

NewPlayer(pid, name, px, py) ==
    [id |-> pid, name |-> name, x |-> px, y |-> py,
     energy |-> 200, score |-> 0, commits |-> 0, lastMove |-> Now]

\* game.players is a Map: `order` is its insertion order, `players` its entries.
\* endCalls, winnerId and clearCalls are history: the number of endGame runs on
\* the game, the id of the player object endGame picked and the number of
\* clearInterval calls on the game's interval.
NewGame(pid, name, gameTime, nodes) ==
    [players   |-> (pid :> NewPlayer(pid, name, 400, 300)),
     order     |-> <<pid>>,
     nodes     |-> nodes,
     gameState |-> [tick |-> 0, worldEnergy |-> 1000, totalCommits |-> 0,
                    gamePhase |-> "playing", timeLeft |-> gameTime,
                    winner |-> Undefined],
     gameTime  |-> gameTime,
     timer     |-> FALSE,
     endCalls  |-> 0,
     winnerId  |-> Undefined,
     clearCalls |-> 0]

\* Map.set(key, value): a new key goes last, an existing key keeps its place
MapSet(g, pid, player) ==
    [g EXCEPT !.players = [q \in (DOMAIN g.players) \cup {pid} |->
                              IF q = pid THEN player ELSE g.players[q]],
              !.order = IF pid \in DOMAIN g.players THEN @ ELSE Append(@, pid)]

\* Array.from(game.players.values())
PlayersArray(g) == [i \in 1..Len(g.order) |-> g.players[g.order[i]]]

\* A world: the games, the events emitted so far by the running operation and
\* the message of the Error thrown ("" while none is).
World(gs, ev, err) == [games |-> gs, ev |-> ev, err |-> err]

Emit(w, e) == [w EXCEPT !.ev = Append(@, e)]

Throw(w, msg) == [w EXCEPT !.err = msg]

HasGame(gs, gi) == gi \in 1..Len(gs)

\* clearInterval on the interval of game gi
ClearInterval(w, gi) ==
    [w EXCEPT !.games[gi].timer = FALSE, !.games[gi].clearCalls = @ + 1]

----------------------------------------------------------------------------
(* commitWorldState(playerId, rootHash, tick), on a world.  idx is            *)
(* this.players.                                                             *)

\* commitWorldState without the increment of gameState.totalCommits
commitWorldStateNoTotal(w, idx, playerId) ==
    IF idx[playerId] = 0 THEN Throw(w, "Player not found")
    ELSE IF ~HasGame(w.games, idx[playerId]) THEN Throw(w, "Game not found")
    ELSE IF playerId \notin DOMAIN w.games[idx[playerId]].players
         THEN Throw(w, "Player not in game")
    ELSE LET gi == idx[playerId]
             gs == [w.games EXCEPT
                      ![gi].players[playerId].commits = @ + 1,
                      ![gi].players[playerId].score = @ + 100,
                      ![gi].gameState.worldEnergy = @ + 50]
         IN  Emit([w EXCEPT !.games = gs],
                  [type |-> "worldStateCommitted", gameId |-> gi,
                   playerId |-> playerId,
                   commits |-> gs[gi].players[playerId].commits,
                   score |-> gs[gi].players[playerId].score])

\* commitWorldState without the increment of gameState.worldEnergy
commitWorldStateNoEnergy(w, idx, playerId) ==
    IF idx[playerId] = 0 THEN Throw(w, "Player not found")
    ELSE IF ~HasGame(w.games, idx[playerId]) THEN Throw(w, "Game not found")
    ELSE IF playerId \notin DOMAIN w.games[idx[playerId]].players
         THEN Throw(w, "Player not in game")
    ELSE LET gi == idx[playerId]
             gs == [w.games EXCEPT
                      ![gi].players[playerId].commits = @ + 1,
                      ![gi].players[playerId].score = @ + 100,
                      ![gi].gameState.totalCommits = @ + 1]
         IN  Emit([w EXCEPT !.games = gs],
                  [type |-> "worldStateCommitted", gameId |-> gi,
                   playerId |-> playerId,
                   commits |-> gs[gi].players[playerId].commits,
                   score |-> gs[gi].players[playerId].score])

commitWorldState(w, idx, playerId) ==
    IF idx[playerId] = 0 THEN Throw(w, "Player not found")
    ELSE IF ~HasGame(w.games, idx[playerId]) THEN Throw(w, "Game not found")
    ELSE IF playerId \notin DOMAIN w.games[idx[playerId]].players
         THEN Throw(w, "Player not in game")
    ELSE LET gi == idx[playerId]
             gs == [w.games EXCEPT
                      ![gi].players[playerId].commits = @ + 1,
                      ![gi].players[playerId].score = @ + 100,
                      ![gi].gameState.totalCommits = @ + 1,
                      ![gi].gameState.worldEnergy = @ + 50]
         IN  Emit([w EXCEPT !.games = gs],
                  [type |-> "worldStateCommitted", gameId |-> gi,
                   playerId |-> playerId,
                   commits |-> gs[gi].players[playerId].commits,
                   score |-> gs[gi].players[playerId].score])

----------------------------------------------------------------------------
(* handleNodeCollision(game, player, node, nodeId): game is games[gi], player *)
(* its entry pid, node its node number ni (1-based place of node_<ni-1>).     *)

\* the switch with an energy node adding its value without the cap of 100
NodeEffectNoEnergyCap(w, idx, gi, pid, node) ==
    CASE node.type = "energy" ->
            [w EXCEPT !.games[gi].players[pid].energy = @ + 2 * node.value]
      [] node.type = "commit" -> commitWorldState(w, idx, pid)
      [] node.type = "powerup" ->
            [w EXCEPT !.games[gi].players[pid].score = @ + node.value]
      [] node.type = "blockchain" ->
            [w EXCEPT !.games[gi].players[pid].score = @ + node.value,
                      !.games[gi].players[pid].commits = @ + 1]
      [] OTHER -> w

\* the switch with a commit node paying its value like a blockchain node
NodeEffectCommitByValue(w, idx, gi, pid, node) ==
    CASE node.type = "energy" ->
            [w EXCEPT !.games[gi].players[pid].energy =
                          Min2(200, @ + 2 * node.value)]
      [] node.type = "powerup" ->
            [w EXCEPT !.games[gi].players[pid].score = @ + node.value]
      [] node.type \in {"commit", "blockchain"} ->
            [w EXCEPT !.games[gi].players[pid].score = @ + node.value,
                      !.games[gi].players[pid].commits = @ + 1]
      [] OTHER -> w

\* the switch with a blockchain node paying its value like a powerup node
NodeEffectBlockchainNoCommit(w, idx, gi, pid, node) ==
    CASE node.type = "energy" ->
            [w EXCEPT !.games[gi].players[pid].energy =
                          Min2(200, @ + 2 * node.value)]
      [] node.type = "commit" -> commitWorldState(w, idx, pid)
      [] node.type \in {"powerup", "blockchain"} ->
            [w EXCEPT !.games[gi].players[pid].score = @ + node.value]
      [] OTHER -> w

\* the switch with a blockchain node counted in gameState.totalCommits too
NodeEffectBlockchainCountsTotal(w, idx, gi, pid, node) ==
    CASE node.type = "energy" ->
            [w EXCEPT !.games[gi].players[pid].energy =
                          Min2(200, @ + 2 * node.value)]
      [] node.type = "commit" -> commitWorldState(w, idx, pid)
      [] node.type = "powerup" ->
            [w EXCEPT !.games[gi].players[pid].score = @ + node.value]
      [] node.type = "blockchain" ->
            [w EXCEPT !.games[gi].players[pid].score = @ + node.value,
                      !.games[gi].players[pid].commits = @ + 1,
                      !.games[gi].gameState.totalCommits = @ + 1]
      [] OTHER -> w

NodeEffect(w, idx, gi, pid, node) ==
    CASE node.type = "energy" ->
            [w EXCEPT !.games[gi].players[pid].energy =
                          Min2(200, @ + 2 * node.value)]
      [] node.type = "commit" -> commitWorldState(w, idx, pid)
      [] node.type = "powerup" ->
            [w EXCEPT !.games[gi].players[pid].score = @ + node.value]
      [] node.type = "blockchain" ->
            [w EXCEPT !.games[gi].players[pid].score = @ + node.value,
                      !.games[gi].players[pid].commits = @ + 1]
      [] OTHER -> w

\* handleNodeCollision spending the node: its value is set to 0 with its flag
handleNodeCollisionSpendsValue(w, idx, gi, pid, ni) ==
    LET node == w.games[gi].nodes[ni]
        w1 == NodeEffect(w, idx, gi, pid, node)
    IN  IF w1.err /= "" THEN w1
        ELSE Emit([w1 EXCEPT !.games[gi].nodes[ni].isActive = FALSE,
                             !.games[gi].nodes[ni].value = 0],
                  [type |-> "nodeCollected", gameId |-> gi, playerId |-> pid,
                   nodeId |-> node.id, nodeType |-> node.type,
                   value |-> node.value,
                   playerScore |-> w1.games[gi].players[pid].score,
                   playerEnergy |-> w1.games[gi].players[pid].energy])

handleNodeCollision(w, idx, gi, pid, ni) ==
    LET node == w.games[gi].nodes[ni]
        w1 == NodeEffect(w, idx, gi, pid, node)
    IN  IF w1.err /= "" THEN w1
        ELSE Emit([w1 EXCEPT !.games[gi].nodes[ni].isActive = FALSE],
                  [type |-> "nodeCollected", gameId |-> gi, playerId |-> pid,
                   nodeId |-> node.id, nodeType |-> node.type,
                   value |-> node.value,
                   playerScore |-> w1.games[gi].players[pid].score,
                   playerEnergy |-> w1.games[gi].players[pid].energy])

\* the test without the player's radius: distance < node.size
InRangeOfNodeOnly(player, node) ==
    /\ player.x /= NaN
    /\ player.y /= NaN
    /\ (player.x - node.x) * (player.x - node.x)
         + (player.y - node.y) * (player.y - node.y)
       < node.size * node.size

\* Math.sqrt(dx^2 + dy^2) < node.size + 25, compared on the squares; with a NaN
\* coordinate the distance is NaN and the comparison is false
InRange(player, node) ==
    /\ player.x /= NaN
    /\ player.y /= NaN
    /\ (player.x - node.x) * (player.x - node.x)
         + (player.y - node.y) * (player.y - node.y)
       < (node.size + 25) * (node.size + 25)

\* the callback without its isActive test
CollidesInactiveToo(player, node) == InRange(player, node)

\* the body of the forEach callback: which nodes are handled
Collides(player, node) == node.isActive /\ InRange(player, node)

RECURSIVE CollideFrom(_, _, _, _, _)
CollideFrom(w, idx, gi, pid, ni) ==
    IF w.err /= "" \/ ni > Len(w.games[gi].nodes) THEN w
    ELSE IF Collides(w.games[gi].players[pid], w.games[gi].nodes[ni])
         THEN CollideFrom(handleNodeCollision(w, idx, gi, pid, ni),
                          idx, gi, pid, ni + 1)
         ELSE CollideFrom(w, idx, gi, pid, ni + 1)

checkNodeCollisions(w, idx, gi, pid) == CollideFrom(w, idx, gi, pid, 1)

----------------------------------------------------------------------------
(* movePlayer(playerId, x, y), on a world *)

\* the throttle the code does not use: Euclidean displacement above 5
positionChangedEuclid(player, x, y) ==
    /\ player.x /= NaN /\ player.y /= NaN /\ x /= NaN /\ y /= NaN
    /\ \/ ~IsFinite(x)
       \/ ~IsFinite(y)
       \/ (player.x - x) * (player.x - x) + (player.y - y) * (player.y - y) > 25

\* the throttle with a threshold of 3 on each axis
positionChangedOver3(player, x, y) ==
    /\ player.x /= NaN /\ player.y /= NaN /\ x /= NaN /\ y /= NaN
    /\ (Abs(player.x - x) > 3 \/ Abs(player.y - y) > 3)

positionChanged(player, x, y) == FarApart(player.x, x) \/ FarApart(player.y, y)

\* movePlayer looking the player up in the games, first game first, instead
\* of in the index
movePlayerInFirstGame(w, idx, playerId, x, y) ==
    IF idx[playerId] = 0 THEN Throw(w, "Player not found")
    ELSE IF ~HasGame(w.games, idx[playerId]) THEN Throw(w, "Game not found")
    ELSE IF playerId \notin DOMAIN w.games[idx[playerId]].players
         THEN Throw(w, "Player not in game")
    ELSE LET gi == CHOOSE g \in 1..Len(w.games) :
                      /\ playerId \in DOMAIN w.games[g].players
                      /\ \A h \in 1..(g - 1) :
                            playerId \notin DOMAIN w.games[h].players
             player == w.games[gi].players[playerId]
         IN  IF ~positionChanged(player, x, y) THEN w
             ELSE LET moved == [player EXCEPT
                                  !.x = Clamp(50, 750, x),
                                  !.y = Clamp(50, 550, y),
                                  !.energy = Max2(0, @ - 1),
                                  !.lastMove = Now]
                      w1 == [w EXCEPT !.games[gi].players[playerId] = moved]
                      w2 == checkNodeCollisions(w1, idx, gi, playerId)
                  IN  IF w2.err /= "" THEN w2
                      ELSE Emit(w2,
                             [type |-> "playerMoved", gameId |-> gi,
                              playerId |-> playerId,
                              x |-> w2.games[gi].players[playerId].x,
                              y |-> w2.games[gi].players[playerId].y,
                              energy |-> w2.games[gi].players[playerId].energy])

\* movePlayer resolving the collisions before it charges the move
movePlayerChargesLast(w, idx, playerId, x, y) ==
    IF idx[playerId] = 0 THEN Throw(w, "Player not found")
    ELSE IF ~HasGame(w.games, idx[playerId]) THEN Throw(w, "Game not found")
    ELSE IF playerId \notin DOMAIN w.games[idx[playerId]].players
         THEN Throw(w, "Player not in game")
    ELSE LET gi == idx[playerId]
             player == w.games[gi].players[playerId]
         IN  IF ~positionChanged(player, x, y) THEN w
             ELSE LET moved == [player EXCEPT
                                  !.x = Clamp(50, 750, x),
                                  !.y = Clamp(50, 550, y),
                                  !.lastMove = Now]
                      w1 == [w EXCEPT !.games[gi].players[playerId] = moved]
                      w2 == checkNodeCollisions(w1, idx, gi, playerId)
                      w3 == [w2 EXCEPT !.games[gi].players[playerId].energy =
                                           Max2(0, @ - 1)]
                  IN  IF w2.err /= "" THEN w2
                      ELSE Emit(w3,
                             [type |-> "playerMoved", gameId |-> gi,
                              playerId |-> playerId,
                              x |-> w3.games[gi].players[playerId].x,
                              y |-> w3.games[gi].players[playerId].y,
                              energy |-> w3.games[gi].players[playerId].energy])

movePlayer(w, idx, playerId, x, y) ==
    IF idx[playerId] = 0 THEN Throw(w, "Player not found")
    ELSE IF ~HasGame(w.games, idx[playerId]) THEN Throw(w, "Game not found")
    ELSE IF playerId \notin DOMAIN w.games[idx[playerId]].players
         THEN Throw(w, "Player not in game")
    ELSE LET gi == idx[playerId]
             player == w.games[gi].players[playerId]
         IN  IF ~positionChanged(player, x, y) THEN w
             ELSE LET moved == [player EXCEPT
                                  !.x = Clamp(50, 750, x),
                                  !.y = Clamp(50, 550, y),
                                  !.energy = Max2(0, @ - 1),
                                  !.lastMove = Now]
                      w1 == [w EXCEPT !.games[gi].players[playerId] = moved]
                      w2 == checkNodeCollisions(w1, idx, gi, playerId)
                  IN  IF w2.err /= "" THEN w2
                      ELSE Emit(w2,
                             [type |-> "playerMoved", gameId |-> gi,
                              playerId |-> playerId,
                              x |-> w2.games[gi].players[playerId].x,
                              y |-> w2.games[gi].players[playerId].y,
                              energy |-> w2.games[gi].players[playerId].energy])

----------------------------------------------------------------------------
(* endGame(gameId), on a world *)

\* players.reduce((prev, current) => (prev.score > current.score) ? prev : current)
RECURSIVE ReduceFrom(_, _, _)
ReduceFrom(prev, arr, i) ==
    IF i > Len(arr) THEN prev
    ELSE ReduceFrom(IF prev.score > arr[i].score THEN prev ELSE arr[i], arr, i + 1)

\* the reduce with (prev.score >= current.score): the first of the best wins
RECURSIVE ReduceFirstFrom(_, _, _)
ReduceFirstFrom(prev, arr, i) ==
    IF i > Len(arr) THEN prev
    ELSE ReduceFirstFrom(IF prev.score >= arr[i].score THEN prev ELSE arr[i],
                         arr, i + 1)

FindWinnerFirst(arr) == ReduceFirstFrom(arr[1], arr, 2)

FindWinner(arr) == ReduceFrom(arr[1], arr, 2)

\* endGame without the phase assignment and without clearInterval
endGameKeepsRunning(w, gi) ==
    IF ~HasGame(w.games, gi) THEN w
    ELSE LET arr == PlayersArray(w.games[gi])
             winner == FindWinner(arr)
             gs == [w.games EXCEPT
                      ![gi].gameState.winner = winner.name,
                      ![gi].endCalls = @ + 1,
                      ![gi].winnerId = winner.id]
         IN  Emit([w EXCEPT !.games = gs],
                  [type |-> "gameEnded", gameId |-> gi, winner |-> winner.name,
                   finalScore |-> winner.score])

\* endGame putting the game back to a "waiting" phase
endGameToWaiting(w, gi) ==
    IF ~HasGame(w.games, gi) THEN w
    ELSE LET arr == PlayersArray(w.games[gi])
             winner == FindWinner(arr)
             gs == [w.games EXCEPT
                      ![gi].gameState.gamePhase = "waiting",
                      ![gi].gameState.winner = winner.name,
                      ![gi].endCalls = @ + 1,
                      ![gi].winnerId = winner.id]
             w1 == [w EXCEPT !.games = gs]
             w2 == IF gs[gi].timer THEN ClearInterval(w1, gi) ELSE w1
         IN  Emit(w2,
                  [type |-> "gameEnded", gameId |-> gi, winner |-> winner.name,
                   finalScore |-> winner.score])

\* endGame without its clearInterval
endGameNoClear(w, gi) ==
    IF ~HasGame(w.games, gi) THEN w
    ELSE LET arr == PlayersArray(w.games[gi])
             winner == FindWinner(arr)
             gs == [w.games EXCEPT
                      ![gi].gameState.gamePhase = "ended",
                      ![gi].gameState.winner = winner.name,
                      ![gi].endCalls = @ + 1,
                      ![gi].winnerId = winner.id]
         IN  Emit([w EXCEPT !.games = gs],
                  [type |-> "gameEnded", gameId |-> gi, winner |-> winner.name,
                   finalScore |-> winner.score])

\* endGame without the assignment of gameState.winner
endGameNoWinner(w, gi) ==
    IF ~HasGame(w.games, gi) THEN w
    ELSE LET arr == PlayersArray(w.games[gi])
             winner == FindWinner(arr)
             gs == [w.games EXCEPT
                      ![gi].gameState.gamePhase = "ended",
                      ![gi].endCalls = @ + 1,
                      ![gi].winnerId = winner.id]
             w1 == [w EXCEPT !.games = gs]
             w2 == IF gs[gi].timer THEN ClearInterval(w1, gi) ELSE w1
         IN  Emit(w2,
                  [type |-> "gameEnded", gameId |-> gi, winner |-> winner.name,
                   finalScore |-> winner.score])

endGame(w, gi) ==
    IF ~HasGame(w.games, gi) THEN w
    ELSE LET arr == PlayersArray(w.games[gi])
             winner == FindWinner(arr)
             gs == [w.games EXCEPT
                      ![gi].gameState.gamePhase = "ended",
                      ![gi].gameState.winner = winner.name,
                      ![gi].endCalls = @ + 1,
                      ![gi].winnerId = winner.id]
             w1 == [w EXCEPT !.games = gs]
             w2 == IF gs[gi].timer THEN ClearInterval(w1, gi) ELSE w1
         IN  Emit(w2,
                  [type |-> "gameEnded", gameId |-> gi, winner |-> winner.name,
                   finalScore |-> winner.score])

----------------------------------------------------------------------------
(* The callback of the interval timer started by startGameTimer(gameId) *)

\* the gameStateUpdate event.  Its players and nodes arrays are the game's
\* players and nodes at the moment of the emit, which the state holds; the
\* event keeps the gameState it was serialised with.  The same holds for the
\* players array of gameEnded.
StateUpdate(gs, gi) ==
    [type |-> "gameStateUpdate", gameId |-> gi,
     gameState |-> gs[gi].gameState]

\* one interval for the whole registry: a firing advances every playing game
timerCallbackEveryGame(w, gi) ==
    IF w.games[gi].gameState.gamePhase /= "playing"
    THEN ClearInterval(w, gi)
    ELSE LET gs == [g \in 1..Len(w.games) |->
                      IF w.games[g].gameState.gamePhase = "playing"
                      THEN [w.games[g] EXCEPT
                              !.gameState.tick = @ + 1,
                              !.gameState.timeLeft = Max2(0, @ - 1)]
                      ELSE w.games[g]]
             w1 == [w EXCEPT !.games = gs]
             w2 == IF gs[gi].gameState.tick % 5 = 0
                   THEN Emit(w1, StateUpdate(gs, gi))
                   ELSE w1
         IN  IF gs[gi].gameState.timeLeft <= 0 THEN endGame(w2, gi) ELSE w2

\* the callback emitting gameStateUpdate at every tick
timerCallbackUpdatesEveryTick(w, gi) ==
    IF w.games[gi].gameState.gamePhase /= "playing"
    THEN ClearInterval(w, gi)
    ELSE LET gs == [w.games EXCEPT
                      ![gi].gameState.tick = @ + 1,
                      ![gi].gameState.timeLeft = Max2(0, @ - 1)]
             w1 == [w EXCEPT !.games = gs]
             w2 == Emit(w1, StateUpdate(gs, gi))
         IN  IF gs[gi].gameState.timeLeft <= 0 THEN endGame(w2, gi) ELSE w2

\* the callback taking two seconds from timeLeft at each firing
timerCallbackTwoSeconds(w, gi) ==
    IF w.games[gi].gameState.gamePhase /= "playing"
    THEN ClearInterval(w, gi)
    ELSE LET gs == [w.games EXCEPT
                      ![gi].gameState.tick = @ + 1,
                      ![gi].gameState.timeLeft = Max2(0, @ - 2)]
             w1 == [w EXCEPT !.games = gs]
             w2 == IF gs[gi].gameState.tick % 5 = 0
                   THEN Emit(w1, StateUpdate(gs, gi))
                   ELSE w1
         IN  IF gs[gi].gameState.timeLeft <= 0 THEN endGame(w2, gi) ELSE w2

\* the callback with the end test (timeLeft <= 1): one firing too early
timerCallbackEndsEarly(w, gi) ==
    IF w.games[gi].gameState.gamePhase /= "playing"
    THEN ClearInterval(w, gi)
    ELSE LET gs == [w.games EXCEPT
                      ![gi].gameState.tick = @ + 1,
                      ![gi].gameState.timeLeft = Max2(0, @ - 1)]
             w1 == [w EXCEPT !.games = gs]
             w2 == IF gs[gi].gameState.tick % 5 = 0
                   THEN Emit(w1, StateUpdate(gs, gi))
                   ELSE w1
         IN  IF gs[gi].gameState.timeLeft <= 1 THEN endGame(w2, gi) ELSE w2

timerCallback(w, gi) ==
    IF w.games[gi].gameState.gamePhase /= "playing"
    THEN ClearInterval(w, gi)
    ELSE LET gs == [w.games EXCEPT
                      ![gi].gameState.tick = @ + 1,
                      ![gi].gameState.timeLeft = Max2(0, @ - 1)]
             w1 == [w EXCEPT !.games = gs]
             w2 == IF gs[gi].gameState.tick % 5 = 0
                   THEN Emit(w1, StateUpdate(gs, gi))
                   ELSE w1
         IN  IF gs[gi].gameState.timeLeft <= 0 THEN endGame(w2, gi) ELSE w2

----------------------------------------------------------------------------
(* The WebSocket side of index.js.  A transport t is the clients Map and the  *)
(* messages sent so far by the running operation.                             *)

HasClient(cl, c) == \E i \in 1..Len(cl) : cl[i].id = c

IsOpen(cl, c) == \E i \in 1..Len(cl) : cl[i].id = c /\ cl[i].open

\* a delete that empties the Map
DeleteEveryClient(cl, c) == <<>>

\* clients.delete(clientId)
DeleteClient(cl, c) == SelectSeq(cl, LAMBDA e : e.id /= c)

\* the message type each gameService listener broadcasts
MessageType(eventType) ==
    CASE eventType = "playerJoined" -> "player_joined"
      [] eventType = "playerMoved" -> "player_moved"
      [] eventType = "worldStateCommitted" -> "world_state_committed"
      [] eventType = "nodeCollected" -> "node_collected"
      [] eventType = "gameStateUpdate" -> "game_state_update"
      [] eventType = "gameEnded" -> "game_ended"

\* broadcastToClients(message): clients.forEach over the entries cl the Map
\* held when the call began
RECURSIVE BroadcastFrom(_, _, _, _)
BroadcastFrom(t, cl, msg, i) ==
    IF i > Len(cl) THEN t
    ELSE IF cl[i].open
         THEN BroadcastFrom([t EXCEPT !.sent = Append(@, [to |-> cl[i].id,
                                                          type |-> msg.type,
                                                          data |-> msg.data])],
                            cl, msg, i + 1)
         ELSE BroadcastFrom([t EXCEPT !.clients = DeleteClient(@, cl[i].id)],
                            cl, msg, i + 1)

\* a forEach that gives up at the first socket that is not open
RECURSIVE BroadcastUntilClosed(_, _, _, _)
BroadcastUntilClosed(t, cl, msg, i) ==
    IF i > Len(cl) THEN t
    ELSE IF cl[i].open
         THEN BroadcastUntilClosed([t EXCEPT !.sent = Append(@, [to |-> cl[i].id,
                                                                 type |-> msg.type,
                                                                 data |-> msg.data])],
                                   cl, msg, i + 1)
         ELSE [t EXCEPT !.clients = DeleteClient(@, cl[i].id)]

broadcastStopsAtClosed(t, msg) == BroadcastUntilClosed(t, t.clients, msg, 1)

broadcastToClients(t, msg) == BroadcastFrom(t, t.clients, msg, 1)

\* the listeners run inside emit, one event after the other
RECURSIVE ListenersFrom(_, _, _)
ListenersFrom(t, events, i) ==
    IF i > Len(events) THEN t
    ELSE ListenersFrom(broadcastToClients(t, [type |-> MessageType(events[i].type),
                                             data |-> events[i]]),
                       events, i + 1)

Listeners(cl, events) == ListenersFrom([clients |-> cl, sent |-> <<>>], events, 1)

\* the answer handed to broadcastToClients instead of the sender's socket
ReplyToAll(t, c, msg) == broadcastToClients(t, msg)

\* clients.get(clientId)?.send(...): nothing leaves through a socket that is
\* not in the Map or not open
Reply(t, c, msg) ==
    IF IsOpen(t.clients, c)
    THEN [t EXCEPT !.sent = Append(@, [to |-> c, type |-> msg.type,
                                      data |-> msg.data])]
    ELSE t

\* the answer of handleClientMessage to the client of a game_move or
\* game_commit: the result, or the message of the Error caught
Answer(w) ==
    IF w.err = "" THEN [type |-> "game_update", data |-> "result"]
    ELSE [type |-> "error", data |-> w.err]

\* the messages of one operation: the broadcasts of its events, then, for a
\* WebSocket request of client via, the answer
Transport(w, via) ==
    LET t == Listeners(clients, w.ev)
        u == IF via = Http THEN t ELSE Reply(t, via, Answer(w))
    IN  /\ clients' = u.clients
        /\ sent' = u.sent

----------------------------------------------------------------------------
(* The state machine: one action per request handler and one for the timer *)

Outcome(w) == IF w.err = "" THEN "ok" ELSE w.err

Init ==
    /\ games = <<>>
    /\ players = [p \in PlayerIds |-> 0]
    /\ gameId = 1
    /\ emitted = <<>>
    /\ result = "ok"
    /\ request = [op |-> "none"]
    /\ ops = 0
    /\ clients = <<>>
    /\ sent = <<>>
    /\ hook = [inflight |-> {}, commits |-> [p \in PlayerIds |-> 0]]

\* createGame(playerId, playerName, gameTime); startGameTimer arms the interval
CreateGame(playerId, playerName, gameTime, nodes) ==
    /\ ops < MaxOps
    /\ gameId <= MaxGames
    /\ LET game == [NewGame(playerId, playerName, gameTime, nodes)
                      EXCEPT !.timer = TRUE]
           gs == Append(games, game)
       IN  /\ games' = gs
           /\ players' = [players EXCEPT ![playerId] = gameId]
           /\ emitted' = <<StateUpdate(gs, gameId)>>
           /\ Transport(World(gs, <<StateUpdate(gs, gameId)>>, ""), Http)
    /\ gameId' = gameId + 1
    /\ result' = "ok"
    /\ request' = [op |-> "createGame", playerId |-> playerId,
                   gameTime |-> gameTime]
    /\ ops' = ops + 1
    /\ UNCHANGED hook

\* joinGame without its test of the phase
JoinGameAnyPhase(gi, playerId, playerName, spawn) ==
    /\ ops < MaxOps
    /\ ops' = ops + 1
    /\ request' = [op |-> "joinGame", gameId |-> gi, playerId |-> playerId]
    /\ UNCHANGED <<gameId, hook>>
    /\ IF ~HasGame(games, gi)
       THEN /\ result' = "Game not found"
            /\ emitted' = <<>>
            /\ sent' = <<>>
            /\ UNCHANGED <<games, players, clients>>
       ELSE LET player == NewPlayer(playerId, playerName, spawn[1], spawn[2])
                joined == [type |-> "playerJoined", gameId |-> gi,
                           player |-> player]
            IN  /\ games' = [games EXCEPT ![gi] = MapSet(@, playerId, player)]
                /\ players' = [players EXCEPT ![playerId] = gi]
                /\ emitted' = <<joined>>
                /\ result' = "ok"
                /\ Transport(World(games', <<joined>>, ""), Http)

\* joinGame writing the index entry before it looks the game up
JoinGameIndexesFirst(gi, playerId, playerName, spawn) ==
    /\ ops < MaxOps
    /\ ops' = ops + 1
    /\ request' = [op |-> "joinGame", gameId |-> gi, playerId |-> playerId]
    /\ UNCHANGED <<gameId, hook>>
    /\ players' = [players EXCEPT ![playerId] = gi]
    /\ IF ~HasGame(games, gi)
       THEN /\ result' = "Game not found"
            /\ emitted' = <<>>
            /\ sent' = <<>>
            /\ UNCHANGED <<games, clients>>
       ELSE IF games[gi].gameState.gamePhase /= "playing"
       THEN /\ result' = "Game is not active"
            /\ emitted' = <<>>
            /\ sent' = <<>>
            /\ UNCHANGED <<games, clients>>
       ELSE LET player == NewPlayer(playerId, playerName, spawn[1], spawn[2])
                joined == [type |-> "playerJoined", gameId |-> gi,
                           player |-> player]
            IN  /\ games' = [games EXCEPT ![gi] = MapSet(@, playerId, player)]
                /\ emitted' = <<joined>>
                /\ result' = "ok"
                /\ Transport(World(games', <<joined>>, ""), Http)

\* joinGame(gameId, playerId, playerName); spawn is the random (x, y)
JoinGame(gi, playerId, playerName, spawn) ==
    /\ ops < MaxOps
    /\ ops' = ops + 1
    /\ request' = [op |-> "joinGame", gameId |-> gi, playerId |-> playerId]
    /\ UNCHANGED <<gameId, hook>>
    /\ IF ~HasGame(games, gi)
       THEN /\ result' = "Game not found"
            /\ emitted' = <<>>
            /\ sent' = <<>>
            /\ UNCHANGED <<games, players, clients>>
       ELSE IF games[gi].gameState.gamePhase /= "playing"
       THEN /\ result' = "Game is not active"
            /\ emitted' = <<>>
            /\ sent' = <<>>
            /\ UNCHANGED <<games, players, clients>>
       ELSE LET player == NewPlayer(playerId, playerName, spawn[1], spawn[2])
                joined == [type |-> "playerJoined", gameId |-> gi,
                           player |-> player]
            IN  /\ games' = [games EXCEPT ![gi] = MapSet(@, playerId, player)]
                /\ players' = [players EXCEPT ![playerId] = gi]
                /\ emitted' = <<joined>>
                /\ result' = "ok"
                /\ Transport(World(games', <<joined>>, ""), Http)

\* gameService.movePlayer called for a request that came by via (an HTTP
\* route or the WebSocket client of that id), and the messages that follow
MoveRequest(via, playerId, x, y) ==
    /\ request' = [op |-> "movePlayer", playerId |-> playerId,
                   x |-> x, y |-> y, via |-> via]
    /\ LET w == movePlayer(World(games, <<>>, ""), players, playerId, x, y)
       IN  /\ games' = w.games
           /\ emitted' = w.ev
           /\ result' = Outcome(w)
           /\ Transport(w, via)
    /\ UNCHANGED <<players, gameId>>

\* gameService.commitWorldState called for a request that came by via
CommitRequest(via, playerId) ==
    /\ request' = [op |-> "commitWorldState", playerId |-> playerId,
                   via |-> via]
    /\ LET w == commitWorldState(World(games, <<>>, ""), players, playerId)
       IN  /\ games' = w.games
           /\ emitted' = w.ev
           /\ result' = Outcome(w)
           /\ Transport(w, via)
    /\ UNCHANGED <<players, gameId>>

\* POST /api/game/move
MovePlayer(playerId, x, y) ==
    /\ ops < MaxOps
    /\ ops' = ops + 1
    /\ MoveRequest(Http, playerId, x, y)
    /\ UNCHANGED hook

\* POST /api/game/commit
CommitWorldState(playerId) ==
    /\ ops < MaxOps
    /\ ops' = ops + 1
    /\ CommitRequest(Http, playerId)
    /\ UNCHANGED hook

\* a game_move message of the open connection c
WsGameMove(c, playerId, x, y) ==
    /\ ops < MaxOps
    /\ IsOpen(clients, c)
    /\ ops' = ops + 1
    /\ MoveRequest(c, playerId, x, y)
    /\ UNCHANGED hook

\* a game_commit message of the open connection c
WsGameCommit(c, playerId) ==
    /\ ops < MaxOps
    /\ IsOpen(clients, c)
    /\ ops' = ops + 1
    /\ CommitRequest(c, playerId)
    /\ UNCHANGED hook

\* wss.on('connection'): the socket enters the Map under a fresh id and is
\* sent the world state
Connect(c) ==
    /\ ~HasClient(clients, c)
    /\ clients' = Append(clients, [id |-> c, open |-> TRUE])
    /\ sent' = <<[to |-> c, type |-> "world_state", data |-> "worldState"]>>
    /\ emitted' = <<>>
    /\ result' = "ok"
    /\ request' = [op |-> "connect", client |-> c]
    /\ UNCHANGED <<games, players, gameId, ops, hook>>

\* the socket of c leaves the OPEN state; its close event has not run yet
SocketCloses(c) ==
    /\ IsOpen(clients, c)
    /\ clients' = [i \in 1..Len(clients) |->
                      IF clients[i].id = c THEN [clients[i] EXCEPT !.open = FALSE]
                      ELSE clients[i]]
    /\ sent' = <<>>
    /\ emitted' = <<>>
    /\ result' = "ok"
    /\ request' = [op |-> "socketCloses", client |-> c]
    /\ UNCHANGED <<games, players, gameId, ops, hook>>

\* ws.on('close') and ws.on('error'): clients.delete(clientId)
CloseEvent(c) ==
    /\ HasClient(clients, c)
    /\ ~IsOpen(clients, c)
    /\ clients' = DeleteClient(clients, c)
    /\ sent' = <<>>
    /\ emitted' = <<>>
    /\ result' = "ok"
    /\ request' = [op |-> "closeEvent", client |-> c]
    /\ UNCHANGED <<games, players, gameId, ops, hook>>

\* one firing of the interval of game gi
TimerFire(gi) ==
    /\ HasGame(games, gi)
    /\ games[gi].timer
    /\ request' = [op |-> "timer", gameId |-> gi]
    /\ LET w == timerCallback(World(games, <<>>, ""), gi)
       IN  /\ games' = w.games
           /\ emitted' = w.ev
           /\ result' = Outcome(w)
           /\ Transport(w, Http)
    /\ UNCHANGED <<players, gameId, ops, hook>>

\* the requests and timer firings, with gameTime drawn from D and (x, y) from T
Step(D, T) ==
    \/ \E p \in Creators, d \in D, n \in generateNodes :
          CreateGame(p, NameOf(p), d, n)
    \/ \E gi \in 1..MaxGames, p \in PlayerIds, s \in Spawns :
          JoinGame(gi, p, NameOf(p), s)
    \/ \E p \in PlayerIds, t \in T : MovePlayer(p, t[1], t[2])
    \/ \E p \in PlayerIds : CommitWorldState(p)
    \/ \E gi \in 1..MaxGames : TimerFire(gi)

Next == Step(Durations, MoveTargets)

Spec == Init /\ [][Next]_vars

\* the same machine fed only positive durations and finite coordinates
NextValid ==
    Step({d \in Durations : d > 0},
         {t \in MoveTargets : IsFinite(t[1]) /\ IsFinite(t[2])})

SpecValid == Init /\ [][NextValid]_vars

\* setInterval(..., 1000): an interval that is not cleared keeps firing
SpecFair == Spec /\ \A gi \in 1..MaxGames : WF_vars(TimerFire(gi))

\* gameTime arguments and (x, y) targets of the runs below
ShortDurations == {1}

FewTargets == { <<405, 300>>, <<406, 300>>, <<800, 300>> }

\* the server with WebSocket clients: connections come and go, moves and
\* commits arrive by the HTTP routes and as messages of the open connections
NextWs ==
    \/ \E p \in Creators, d \in ShortDurations :
          CreateGame(p, NameOf(p), d, LayoutA)
    \/ \E gi \in 1..MaxGames, p \in PlayerIds \ Creators :
          JoinGame(gi, p, NameOf(p), <<744, 306>>)
    \/ \E p \in PlayerIds, t \in FewTargets : MovePlayer(p, t[1], t[2])
    \/ \E p \in PlayerIds : CommitWorldState(p)
    \/ \E c \in ConnIds, p \in PlayerIds, t \in FewTargets :
          WsGameMove(c, p, t[1], t[2])
    \/ \E c \in ConnIds, p \in PlayerIds : WsGameCommit(c, p)
    \/ \E c \in ConnIds : Connect(c)
    \/ \E c \in ConnIds : SocketCloses(c)
    \/ \E c \in ConnIds : CloseEvent(c)
    \/ \E gi \in 1..MaxGames : TimerFire(gi)

SpecWs == Init /\ [][NextWs]_vars

\* An exception that leaves the interval callback.  The callback has no
\* try/catch, the listeners and broadcastToClients have none, and index.js
\* registers no uncaughtException handler: the process ends, and with it every
\* interval and the registry.
Uncaught == "uncaughtException"

Crashed == result = Uncaught

\* a firing of the interval of game gi in which the listener of the first
\* event emitted throws while it sends to an open socket.  What the callback
\* wrote before that emit is written; no interval is left.
TimerThrows(gi) ==
    /\ HasGame(games, gi)
    /\ games[gi].timer
    /\ games[gi].gameState.gamePhase = "playing"
    /\ \E i \in 1..Len(clients) : clients[i].open
    /\ LET gs == [games EXCEPT
                    ![gi].gameState.tick = @ + 1,
                    ![gi].gameState.timeLeft = Max2(0, @ - 1)]
           w1 == World(gs, <<>>, "")
           w2 == IF gs[gi].gameState.tick % 5 = 0
                 THEN Emit(w1, StateUpdate(gs, gi))
                 ELSE endGame(w1, gi)
       IN  /\ (gs[gi].gameState.tick % 5 = 0 \/ gs[gi].gameState.timeLeft <= 0)
           /\ games' = [g \in 1..Len(w2.games) |->
                           [w2.games[g] EXCEPT !.timer = FALSE]]
           /\ emitted' = w2.ev
    /\ sent' = <<>>
    /\ result' = Uncaught
    /\ request' = [op |-> "timer", gameId |-> gi]
    /\ UNCHANGED <<players, gameId, ops, clients, hook>>

\* the server with WebSocket clients, where a send may throw during a tick;
\* nothing runs once the process has ended
NextFault ==
    \/ ~Crashed /\ NextWs
    \/ \E gi \in 1..MaxGames : TimerThrows(gi)

SpecFault == Init /\ [][NextFault]_vars

\* games long enough for the interval to reach its fifth and tenth firing
TickDurations == {5, 11}

NextTicks ==
    \/ \E p \in Creators, d \in TickDurations :
          CreateGame(p, NameOf(p), d, LayoutA)
    \/ \E gi \in 1..MaxGames, p \in PlayerIds \ Creators :
          JoinGame(gi, p, NameOf(p), <<744, 306>>)
    \/ \E p \in PlayerIds : MovePlayer(p, 406, 300)
    \/ \E p \in PlayerIds : CommitWorldState(p)
    \/ \E gi \in 1..MaxGames : TimerFire(gi)

SpecTicks == Init /\ [][NextTicks]_vars

\* The client hook useRealTimeGame.  Its commitWorldState sends one commit
\* twice: as a game_commit message on the hook's WebSocket and as a POST to
\* /api/game/commit.  It returns at once without a player (set by create or
\* join) or without a socket.  n numbers the commit actions of a player.
HookCommit(c, playerId) ==
    /\ IsOpen(clients, c)
    /\ players[playerId] /= 0
    /\ ops + Cardinality(hook.inflight) + 2 <= MaxOps
    /\ LET n == hook.commits[playerId] + 1
       IN  hook' = [inflight |-> hook.inflight \cup
                                  {[via |-> c, playerId |-> playerId, n |-> n],
                                   [via |-> Http, playerId |-> playerId, n |-> n]},
                    commits |-> [hook.commits EXCEPT ![playerId] = n]]
    /\ sent' = <<>>
    /\ emitted' = <<>>
    /\ result' = "ok"
    /\ request' = [op |-> "hookCommit", client |-> c, playerId |-> playerId]
    /\ UNCHANGED <<games, players, gameId, ops, clients>>

\* the server handles one of the messages in flight: the route for the POST,
\* handleClientMessage for the game_commit of an open connection
DeliverCommit(m) ==
    /\ m \in hook.inflight
    /\ ops < MaxOps
    /\ m.via = Http \/ IsOpen(clients, m.via)
    /\ ops' = ops + 1
    /\ CommitRequest(m.via, m.playerId)
    /\ hook' = [hook EXCEPT !.inflight = @ \ {m}]

\* gameTime of the games the hooks create
HookDurations == {2}

\* the messages a hook can have in flight
HookMessages ==
    [via : ConnIds \cup {Http}, playerId : PlayerIds, n : 1..MaxOps]

\* players that commit through the hook only; a hook creates or joins once
NextHook ==
    \/ \E p \in Creators, d \in HookDurations :
          /\ players[p] = 0
          /\ CreateGame(p, NameOf(p), d, LayoutA)
    \/ \E gi \in 1..MaxGames, p \in PlayerIds \ Creators :
          /\ players[p] = 0
          /\ JoinGame(gi, p, NameOf(p), <<744, 306>>)
    \/ \E c \in ConnIds : Connect(c)
    \/ \E c \in ConnIds, p \in PlayerIds : HookCommit(c, p)
    \/ \E m \in HookMessages : DeliverCommit(m)
    \/ \E gi \in 1..MaxGames : TimerFire(gi)

SpecHook == Init /\ [][NextHook]_vars

\* one game and its creator moving for as long as it likes: the number of
\* moves is not bounded, the energy is
LongTargets == { <<406, 300>>, <<800, 300>>, <<0, 0>> }

NextLong ==
    \/ /\ games = <<>>
       /\ \E p \in Creators, d \in ShortDurations, n \in generateNodes :
             CreateGame(p, NameOf(p), d, n)
    \/ /\ games /= <<>>
       /\ \E p \in Creators, t \in LongTargets :
             MoveRequest(Http, p, t[1], t[2]) /\ UNCHANGED <<ops, hook>>
    \/ TimerFire(1)

SpecLong == Init /\ [][NextLong]_vars

----------------------------------------------------------------------------
(* Vocabulary of the properties *)

GameNumbers == 1..Len(games)

Phase(gi) == games[gi].gameState.gamePhase

\* the events of one type the last operation emitted for game gi
EventsOf(type, gi) ==
    {i \in 1..Len(emitted) : emitted[i].type = type /\ emitted[i].gameId = gi}

\* the last operation was a movePlayer on a player the index knows
MoveServed == request.op = "movePlayer" /\ players[request.playerId] /= 0

\* the last operation emitted a playerMoved event: the move was applied
MoveApplied == \E i \in 1..Len(emitted) : emitted[i].type = "playerMoved"

\* the game and the record of the player of the last request
MoverGame == players[request.playerId]

Mover == games[MoverGame].players[request.playerId]

----------------------------------------------------------------------------
(* C1: once a game's phase is "ended", no timer firing and no movePlayer      *)
(* call changes a player's x, y, energy, score or commits in that game, nor   *)
(* deactivates one of its nodes.                                              *)

C1_EndedIsTerminal ==
    [][\A gi \in GameNumbers :
          (Phase(gi) = "ended" /\ request'.op \in {"movePlayer", "timer"})
          => /\ \A p \in DOMAIN games[gi].players :
                   /\ games'[gi].players[p].x = games[gi].players[p].x
                   /\ games'[gi].players[p].y = games[gi].players[p].y
                   /\ games'[gi].players[p].energy = games[gi].players[p].energy
                   /\ games'[gi].players[p].score = games[gi].players[p].score
                   /\ games'[gi].players[p].commits = games[gi].players[p].commits
             /\ \A ni \in 1..Len(games[gi].nodes) :
                   games'[gi].nodes[ni].isActive = games[gi].nodes[ni].isActive
      ]_vars

----------------------------------------------------------------------------
(* C2: for every game and every player id in it, the player's score and      *)
(* commits are non-negative and never decrease, whatever operation runs       *)
(* (a join that reuses an id of the game included).                           *)

C2_ScoreAndCommitsNeverDecrease ==
    [][\A gi \in GameNumbers : \A p \in DOMAIN games[gi].players :
          /\ games'[gi].players[p].score >= games[gi].players[p].score
          /\ games'[gi].players[p].commits >= games[gi].players[p].commits
          /\ games[gi].players[p].score >= 0
          /\ games[gi].players[p].commits >= 0
      ]_vars

----------------------------------------------------------------------------
(* C3: movePlayer applies a move (position, energy charge, collisions, moved  *)
(* event) if and only if the Euclidean distance between the player's current  *)
(* position and the requested (x, y) is strictly greater than 5.              *)

\* the player record a served move found, read in the state before the step
MoverBefore == games[players[request'.playerId]].players[request'.playerId]

MoverAfter == games'[players[request'.playerId]].players[request'.playerId]

\* sqrt(dx^2 + dy^2) > 5 for a request (x, y), as JavaScript evaluates it
EuclidOver5(player, x, y) ==
    /\ player.x /= NaN /\ player.y /= NaN /\ x /= NaN /\ y /= NaN
    /\ \/ x \in {PosInf, NegInf}
       \/ y \in {PosInf, NegInf}
       \/ (player.x - x) * (player.x - x) + (player.y - y) * (player.y - y) > 25

\* |a - b| > 5 on one axis, false when a or b is NaN
AxisOver5(a, b) == a /= NaN /\ b /= NaN /\ (a - b > 5 \/ b - a > 5)

C3_EuclideanThrottle ==
    [][(/\ request'.op = "movePlayer" /\ result' = "ok"
        /\ IsFinite(request'.x) /\ IsFinite(request'.y)
        /\ IsFinite(MoverBefore.x) /\ IsFinite(MoverBefore.y))
       => (MoveApplied' <=>
             EuclidOver5(MoverBefore, request'.x, request'.y))
      ]_vars

(* C3, amended: the move is applied if and only if the request differs from  *)
(* the current position by more than 5 on the x axis or on the y axis (a NaN  *)
(* difference never counts); an applied move stores the clamped target and    *)
(* emits one moved event, an unapplied one changes no game and emits nothing. *)
C3_PerAxisThrottle ==
    [][(request'.op = "movePlayer" /\ result' = "ok")
       => LET far == \/ AxisOver5(MoverBefore.x, request'.x)
                     \/ AxisOver5(MoverBefore.y, request'.y)
          IN  /\ MoveApplied' <=> far
              /\ far => /\ MoverAfter.x = Clamp(50, 750, request'.x)
                        /\ MoverAfter.y = Clamp(50, 550, request'.y)
                        /\ MoverAfter.energy >= Max2(0, MoverBefore.energy - 1)
                        /\ emitted'[Len(emitted')].type = "playerMoved"
              /\ ~far => games' = games /\ emitted' = <<>>
      ]_vars

\* a served request displaced by (4, 4), further than 5 away, was not applied;
\* the player still stands where the request found it
C3_Witness ==
    /\ MoveServed
    /\ result = "ok"
    /\ ~MoveApplied
    /\ request.x - Mover.x = 4
    /\ request.y - Mover.y = 4
    /\ EuclidOver5(Mover, request.x, request.y)

----------------------------------------------------------------------------
(* C4: when a game ends, the recorded winner is a player whose score is the   *)
(* maximum over the game's players, and among several players with the        *)
(* maximum score it is the first in the iteration order of the players map.   *)

\* the last operation ended game gi
EndedNow(gi) == EventsOf("gameEnded", gi) /= {}

\* places of the players with the maximum score, in iteration order
Best(arr) == {i \in 1..Len(arr) : \A j \in 1..Len(arr) : arr[i].score >= arr[j].score}

FirstBest(arr) == CHOOSE i \in Best(arr) : \A j \in Best(arr) : i <= j

LastBest(arr) == CHOOSE i \in Best(arr) : \A j \in Best(arr) : i >= j

WinnerIs(gi, player) ==
    /\ games[gi].winnerId = player.id
    /\ games[gi].gameState.winner = player.name
    /\ \A i \in EventsOf("gameEnded", gi) :
          emitted[i].winner = player.name /\ emitted[i].finalScore = player.score

C4_FirstOfTiedWins ==
    \A gi \in GameNumbers :
       EndedNow(gi) => WinnerIs(gi, PlayersArray(games[gi])[FirstBest(PlayersArray(games[gi]))])

(* C4, amended: the recorded winner has the maximum score, and among several  *)
(* players with the maximum score it is the last in iteration order.          *)
C4_LastOfTiedWins ==
    \A gi \in GameNumbers :
       EndedNow(gi) => WinnerIs(gi, PlayersArray(games[gi])[LastBest(PlayersArray(games[gi]))])

\* a game has just ended with two players sharing the maximum score
C4_Witness ==
    \E gi \in GameNumbers :
       /\ EndedNow(gi)
       /\ Cardinality(Best(PlayersArray(games[gi]))) = 2

----------------------------------------------------------------------------
(* C5: createGame called with a duration <= 0 fails with an InvalidDuration   *)
(* error and creates nothing: no game, no player -> game entry, no timer, no  *)
(* event.                                                                     *)

C5_NonPositiveDurationRejected ==
    [][(request'.op = "createGame" /\ request'.gameTime <= 0)
       => /\ result' = "InvalidDuration"
          /\ games' = games
          /\ players' = players
          /\ emitted' = <<>>
      ]_vars

----------------------------------------------------------------------------
(* C6: in every reachable state of every game, timeLeft >= 0.                 *)

C6_TimeLeftNonNegative ==
    \A gi \in GameNumbers : games[gi].gameState.timeLeft >= 0

----------------------------------------------------------------------------
(* C7: movePlayer called for a known player with a non-finite coordinate      *)
(* (NaN or an infinity in x or y) is rejected with an InvalidCoordinates       *)
(* error and changes no player, node or game state; the coordinate is never    *)
(* stored or silently clamped.                                                 *)

C7_NonFiniteCoordinatesRejected ==
    [][(/\ request'.op = "movePlayer"
        /\ players[request'.playerId] /= 0
        /\ ~(IsFinite(request'.x) /\ IsFinite(request'.y)))
       => /\ result' = "InvalidCoordinates"
          /\ games' = games
      ]_vars

----------------------------------------------------------------------------
(* C8: in every reachable state every player of every game has                *)
(* 50 <= x <= 750 and 50 <= y <= 550.                                         *)

C8_PlayersInsideArena ==
    \A gi \in GameNumbers : \A p \in DOMAIN games[gi].players :
       /\ games[gi].players[p].x /= NaN
       /\ games[gi].players[p].y /= NaN
       /\ 50 <= games[gi].players[p].x /\ games[gi].players[p].x <= 750
       /\ 50 <= games[gi].players[p].y /\ games[gi].players[p].y <= 550

----------------------------------------------------------------------------
(* C9: a node grants its reward at most once.  A node that is inactive stays  *)
(* inactive and no operation emits a collection event for it; an applied move *)
(* that ends in range of inactive nodes only costs the mover its 0.5 energy   *)
(* and changes no score, no commits, no other player and no game counter.     *)

\* every node of game gi in range of `player` was already inactive before the step
OnlyCapturedInRange(gi, player) ==
    \A ni \in 1..Len(games[gi].nodes) :
       InRange(player, games[gi].nodes[ni]) => ~games[gi].nodes[ni].isActive

C9_CapturedNodeGrantsNothing ==
    [][/\ \A gi \in GameNumbers : \A ni \in 1..Len(games[gi].nodes) :
             ~games[gi].nodes[ni].isActive
             => /\ ~games'[gi].nodes[ni].isActive
                /\ \A i \in 1..Len(emitted') :
                      ~(/\ emitted'[i].type = "nodeCollected"
                        /\ emitted'[i].gameId = gi
                        /\ emitted'[i].nodeId = games[gi].nodes[ni].id)
       /\ (/\ request'.op = "movePlayer" /\ result' = "ok"
           /\ MoveApplied'
           /\ OnlyCapturedInRange(players[request'.playerId], MoverAfter))
          => LET gi == players[request'.playerId]
             IN  /\ MoverAfter.energy =
                       (IF MoverBefore.energy >= 1 THEN MoverBefore.energy - 1 ELSE 0)
                 /\ MoverAfter.score = MoverBefore.score
                 /\ MoverAfter.commits = MoverBefore.commits
                 /\ games'[gi].gameState = games[gi].gameState
                 /\ games'[gi].nodes = games[gi].nodes
                 /\ \A q \in DOMAIN games[gi].players \ {request'.playerId} :
                       games'[gi].players[q] = games[gi].players[q]
                 /\ Len(emitted') = 1
      ]_vars

\* an applied move has just ended in range of a captured node and collected nothing
C9_Witness ==
    /\ MoveServed
    /\ MoveApplied
    /\ Len(emitted) = 1
    /\ \E ni \in 1..Len(games[MoverGame].nodes) :
          /\ InRange(Mover, games[MoverGame].nodes[ni])
          /\ ~games[MoverGame].nodes[ni].isActive

----------------------------------------------------------------------------
(* C10: a game ends at most once.  endGame runs at most once per game, and    *)
(* only in a timer firing that leaves timeLeft at 0; every such firing runs   *)
(* it; each run emits exactly one gameEnded event, and a game is "ended"      *)
(* exactly when endGame has run on it.                                        *)

C10_EndedOnce ==
    /\ [](\A gi \in GameNumbers :
             /\ games[gi].endCalls \in {0, 1}
             /\ games[gi].endCalls = 1 <=> Phase(gi) = "ended"
             /\ Phase(gi) = "ended" => games[gi].gameState.timeLeft = 0
             /\ Cardinality(EventsOf("gameEnded", gi)) <= 1)
    /\ [][\A gi \in GameNumbers :
             LET ran == games'[gi].endCalls - games[gi].endCalls
                 fired == request'.op = "timer" /\ request'.gameId = gi
             IN  /\ Cardinality(EventsOf("gameEnded", gi)') = ran
                 /\ ran > 0 => fired
                 /\ (fired /\ games'[gi].gameState.timeLeft = 0) => ran = 1
         ]_vars

\* a game created with two seconds has just ended, at its second timer firing
C10_Witness ==
    \E gi \in GameNumbers :
       /\ Phase(gi) = "ended"
       /\ games[gi].endCalls = 1
       /\ games[gi].gameState.tick = 2
       /\ Cardinality(EventsOf("gameEnded", gi)) = 1

----------------------------------------------------------------------------
(* C11: a game created with an integer gameTime d >= 1 is "playing", with no  *)
(* winner, while its tick is below d, and is "ended" with a winner recorded   *)
(* from the firing that makes its tick d, whatever joins, moves and commits   *)
(* are interleaved; a game with a single player is won by that player.  While *)
(* the interval keeps firing (weak fairness of the timer) every such game     *)
(* eventually is "ended".                                                     *)

C11_EndsAtItsLastTick ==
    /\ [](\A gi \in GameNumbers :
             games[gi].gameTime >= 1
             => LET st == games[gi].gameState
                IN  /\ st.tick <= games[gi].gameTime
                    /\ st.tick < games[gi].gameTime
                       => st.gamePhase = "playing" /\ st.winner = Undefined
                    /\ st.tick = games[gi].gameTime
                       => /\ st.gamePhase = "ended"
                          /\ games[gi].winnerId \in DOMAIN games[gi].players
                          /\ st.winner = games[gi].players[games[gi].winnerId].name
                          /\ Len(games[gi].order) = 1
                             => games[gi].winnerId = games[gi].order[1])
    /\ \A gi \in 1..MaxGames :
          (HasGame(games, gi) /\ games[gi].gameTime >= 1)
          ~> (HasGame(games, gi) /\ Phase(gi) = "ended")

\* a game of one second with a single player who never acted has ended at its
\* first tick and that player is the winner
C11_Witness ==
    \E gi \in GameNumbers :
       /\ games[gi].gameTime = 1
       /\ games[gi].gameState.tick = 1
       /\ Phase(gi) = "ended"
       /\ games[gi].order = <<"p1">>
       /\ games[gi].players["p1"].score = 0
       /\ games[gi].players["p1"].energy = 200
       /\ games[gi].winnerId = "p1"
       /\ games[gi].gameState.winner = NameOf("p1")

----------------------------------------------------------------------------
(* C12: every firing of the timer of a game that is "playing" with            *)
(* timeLeft > 0 adds exactly 1 to its tick and takes exactly 1 from its       *)
(* timeLeft, and changes no player and no node of any game.                   *)

TimerFired(gi) == request'.op = "timer" /\ request'.gameId = gi

C12_TickStep ==
    [][\A gi \in GameNumbers :
          (TimerFired(gi) /\ Phase(gi) = "playing"
             /\ games[gi].gameState.timeLeft > 0)
          => /\ games'[gi].gameState.tick = games[gi].gameState.tick + 1
             /\ games'[gi].gameState.timeLeft = games[gi].gameState.timeLeft - 1
             /\ \A gj \in GameNumbers :
                   /\ games'[gj].players = games[gj].players
                   /\ games'[gj].order = games[gj].order
                   /\ games'[gj].nodes = games[gj].nodes
             /\ players' = players
      ]_vars

\* the first firing on a game of two seconds: tick 1, one second left, and the
\* game goes on
C12_Witness ==
    /\ request.op = "timer"
    /\ games[request.gameId].gameTime = 2
    /\ games[request.gameId].gameState.tick = 1
    /\ games[request.gameId].gameState.timeLeft = 1
    /\ Phase(request.gameId) = "playing"

----------------------------------------------------------------------------
(* C13: once a game is "ended" its tick and timeLeft never change, its timer  *)
(* never fires again and no gameStateUpdate is emitted for it; its interval   *)
(* is cleared exactly once, by the firing that ends it, and never before.     *)

C13_TimerStopsAtEnd ==
    /\ [](\A gi \in GameNumbers :
             /\ Phase(gi) = "ended"
                => ~games[gi].timer /\ games[gi].clearCalls = 1
             /\ Phase(gi) = "playing"
                => games[gi].timer /\ games[gi].clearCalls = 0)
    /\ [][\A gi \in GameNumbers :
             Phase(gi) = "ended"
             => /\ games'[gi].gameState.tick = games[gi].gameState.tick
                /\ games'[gi].gameState.timeLeft = games[gi].gameState.timeLeft
                /\ games'[gi].gameState.gamePhase = "ended"
                /\ games'[gi].clearCalls = games[gi].clearCalls
                /\ ~TimerFired(gi)
                /\ EventsOf("gameStateUpdate", gi)' = {}
         ]_vars

\* a request served after a game ended at its tick 1: the game still shows
\* tick 1, no time left and an interval cleared once
C13_Witness ==
    \E gi \in GameNumbers :
       /\ Phase(gi) = "ended"
       /\ request.op \in {"movePlayer", "commitWorldState", "joinGame"}
       /\ games[gi].gameTime = 1
       /\ games[gi].gameState.tick = 1
       /\ games[gi].gameState.timeLeft = 0
       /\ games[gi].clearCalls = 1
       /\ ~games[gi].timer

----------------------------------------------------------------------------
(* C14: every successful commitWorldState(playerId) adds exactly 1 to that    *)
(* player's commits and 100 to its score, 1 to the totalCommits and 50 to the *)
(* worldEnergy of the player's game, emits exactly one worldStateCommitted    *)
(* event and changes nothing else: no other player, no node, no tick,         *)
(* timeLeft or phase, no other game.  Successive commits therefore add up.    *)

CommitDone == request.op = "commitWorldState" /\ result = "ok"

C14_CommitEffect ==
    [][CommitDone'
       => LET pid == request'.playerId
              gi == players[pid]
              was == games[gi].players[pid]
              now == games'[gi].players[pid]
          IN  /\ now.commits = was.commits + 1
              /\ now.score = was.score + 100
              /\ now = [was EXCEPT !.commits = now.commits, !.score = now.score]
              /\ games'[gi].gameState.totalCommits
                    = games[gi].gameState.totalCommits + 1
              /\ games'[gi].gameState.worldEnergy
                    = games[gi].gameState.worldEnergy + 50
              /\ games'[gi].gameState.tick = games[gi].gameState.tick
              /\ games'[gi].gameState.timeLeft = games[gi].gameState.timeLeft
              /\ games'[gi].gameState.gamePhase = games[gi].gameState.gamePhase
              /\ games'[gi].gameState.winner = games[gi].gameState.winner
              /\ games'[gi].nodes = games[gi].nodes
              /\ games'[gi].order = games[gi].order
              /\ DOMAIN games'[gi].players = DOMAIN games[gi].players
              /\ \A q \in DOMAIN games[gi].players \ {pid} :
                    games'[gi].players[q] = games[gi].players[q]
              /\ Len(games') = Len(games)
              /\ \A gj \in GameNumbers \ {gi} : games'[gj] = games[gj]
              /\ players' = players
              /\ Len(emitted') = 1
              /\ emitted'[1].type = "worldStateCommitted"
              /\ emitted'[1].gameId = gi
              /\ emitted'[1].playerId = pid
              /\ emitted'[1].commits = now.commits
              /\ emitted'[1].score = now.score
      ]_vars

\* the second of two commits of a player: 2 commits, score 200, totalCommits 2
\* and worldEnergy 1100
C14_Witness ==
    /\ CommitDone
    /\ Mover.commits = 2
    /\ Mover.score = 200
    /\ games[MoverGame].gameState.totalCommits = 2
    /\ games[MoverGame].gameState.worldEnergy = 1100

----------------------------------------------------------------------------
(* Captures: the nodes of game gi a step deactivates, by type *)

Captured(gi, types) ==
    {ni \in 1..Len(games[gi].nodes) :
        /\ games[gi].nodes[ni].isActive
        /\ ~games'[gi].nodes[ni].isActive
        /\ games[gi].nodes[ni].type \in types}

AllTypes == {"energy", "commit", "powerup", "blockchain"}

RECURSIVE SumValues(_, _)
SumValues(nodes, S) ==
    IF S = {} THEN 0
    ELSE LET ni == CHOOSE n \in S : TRUE
         IN  nodes[ni].value + SumValues(nodes, S \ {ni})

\* what the mover's score and commits gain from the captures of the step:
\* 100 and 1 per commit node, the value per powerup node, the value and 1 per
\* blockchain node
ScoreAndCommitsFollowCaptures(gi) ==
    /\ MoverAfter.score = MoverBefore.score
          + 100 * Cardinality(Captured(gi, {"commit"}))
          + SumValues(games[gi].nodes, Captured(gi, {"powerup", "blockchain"}))
    /\ MoverAfter.commits = MoverBefore.commits
          + Cardinality(Captured(gi, {"commit", "blockchain"}))

----------------------------------------------------------------------------
(* C15: capturing an active commit node does to the capturing player and to   *)
(* the game's counters exactly what commitWorldState(playerId) does - commits *)
(* +1, score +100, totalCommits +1, worldEnergy +50 and one                   *)
(* worldStateCommitted event for that player, whatever the node's value -     *)
(* and deactivates the node.  (The same move pays its other captures too.)    *)

C15_CommitNodeIsACommit ==
    [][(request'.op = "movePlayer" /\ MoveApplied')
       => \A gi \in {players[request'.playerId]} :
             LET C == Captured(gi, {"commit"})
                 n == Cardinality(C)
             IN  C /= {}
                 => /\ ScoreAndCommitsFollowCaptures(gi)
                    /\ games'[gi].gameState.totalCommits
                          = games[gi].gameState.totalCommits + n
                    /\ games'[gi].gameState.worldEnergy
                          = games[gi].gameState.worldEnergy + 50 * n
                    /\ Cardinality(EventsOf("worldStateCommitted", gi)') = n
                    /\ \A i \in EventsOf("worldStateCommitted", gi)' :
                          emitted'[i].playerId = request'.playerId
                    /\ \A ni \in C : ~games'[gi].nodes[ni].isActive
                    /\ Captured(gi, AllTypes) = C
                       => /\ MoverAfter.score = MoverBefore.score + 100 * n
                          /\ MoverAfter.commits = MoverBefore.commits + n
      ]_vars

\* a first move captured a commit node of value 200 (and an energy node): the
\* mover has score 100 and 1 commit, the game 1 commit and worldEnergy 1050
C15_Witness ==
    /\ MoveServed
    /\ MoveApplied
    /\ \E i \in 1..Len(emitted) :
          /\ emitted[i].type = "nodeCollected"
          /\ emitted[i].nodeType = "commit"
          /\ emitted[i].value = 200
    /\ \E i \in 1..Len(emitted) :
          /\ emitted[i].type = "worldStateCommitted"
          /\ emitted[i].playerId = request.playerId
    /\ Mover.score = 100
    /\ Mover.commits = 1
    /\ games[MoverGame].gameState.totalCommits = 1
    /\ games[MoverGame].gameState.worldEnergy = 1050

----------------------------------------------------------------------------
(* C16: an applied move that leaves the player within range of an active      *)
(* blockchain node of value v deactivates the node and pays the player v      *)
(* score and 1 commit for it: when it is the only node the move captures the  *)
(* score rises by exactly v and the commits by exactly 1, and the game's      *)
(* totalCommits does not change; with other captures in the same move each    *)
(* pays its own reward on top.                                                *)

C16_BlockchainNodeReward ==
    [][(request'.op = "movePlayer" /\ MoveApplied')
       => LET gi == players[request'.playerId]
          IN  \A ni \in 1..Len(games[gi].nodes) :
                 LET node == games[gi].nodes[ni]
                 IN  (/\ node.type = "blockchain"
                      /\ node.isActive
                      /\ InRange(MoverAfter, node))
                     => /\ ~games'[gi].nodes[ni].isActive
                        /\ ScoreAndCommitsFollowCaptures(gi)
                        /\ Captured(gi, AllTypes) = {ni}
                           => /\ MoverAfter.score
                                    = MoverBefore.score + node.value
                              /\ MoverAfter.commits = MoverBefore.commits + 1
                              /\ games'[gi].gameState.totalCommits
                                    = games[gi].gameState.totalCommits
      ]_vars

\* a first move captured the blockchain node of value 100 and nothing else:
\* score 100, 1 commit, totalCommits still 0, the node inactive
C16_Witness ==
    /\ MoveServed
    /\ MoveApplied
    /\ Len(emitted) = 2
    /\ emitted[1].type = "nodeCollected"
    /\ emitted[1].nodeType = "blockchain"
    /\ emitted[1].value = 100
    /\ Mover.score = 100
    /\ Mover.commits = 1
    /\ games[MoverGame].gameState.totalCommits = 0
    /\ \E ni \in 1..Len(games[MoverGame].nodes) :
          /\ games[MoverGame].nodes[ni].id = emitted[1].nodeId
          /\ ~games[MoverGame].nodes[ni].isActive

----------------------------------------------------------------------------
(* C17: in every reachable state every player's energy is between 0 and 100   *)
(* (0 and 200 in the model's units of 0.5), however many moves are applied    *)
(* (0.5 each, never below 0) and energy nodes captured (the node's value      *)
(* each, never above 100).                                                    *)

C17_EnergyInRange ==
    \A gi \in GameNumbers : \A p \in DOMAIN games[gi].players :
       /\ games[gi].players[p].energy >= 0
       /\ games[gi].players[p].energy <= 200

\* a move was applied to a player whose energy is used up: it stays at 0
C17_Witness ==
    /\ MoveServed
    /\ MoveApplied
    /\ Mover.energy = 0
    /\ emitted[Len(emitted)].energy = 0

----------------------------------------------------------------------------
(* C18: a movePlayer call for a known player whose target is at a distance   *)
(* of at most 5 from the player's position changes no state at all - no      *)
(* position, energy, lastMove, score, commits, node or counter, in any game - *)
(* and emits no event, so no client is sent a broadcast; the only message is  *)
(* the answer to the connection that sent the request.                        *)

WithinThreshold(player, x, y) ==
    /\ IsFinite(x) /\ IsFinite(y) /\ IsFinite(player.x) /\ IsFinite(player.y)
    /\ (player.x - x) * (player.x - x) + (player.y - y) * (player.y - y) <= 25

C18_SmallMoveChangesNothing ==
    [][(/\ request'.op = "movePlayer"
        /\ result' = "ok"
        /\ WithinThreshold(MoverBefore, request'.x, request'.y))
       => /\ games' = games
          /\ players' = players
          /\ gameId' = gameId
          /\ clients' = clients
          /\ emitted' = <<>>
          /\ \A i \in 1..Len(sent') :
                sent'[i].to = request'.via /\ sent'[i].type = "game_update"
      ]_vars

\* a connection asked to move a player standing at (400, 300) to (405, 300)
\* while another connection was open: the player stands where it stood with
\* the energy and the lastMove it had, and only the sender got a message
C18_Witness ==
    /\ MoveServed
    /\ result = "ok"
    /\ request.via \in ConnIds
    /\ request.x = 405
    /\ request.y = 300
    /\ Mover.x = 400
    /\ Mover.y = 300
    /\ Mover.energy = 200
    /\ Mover.lastMove < ops
    /\ emitted = <<>>
    /\ \E c \in ConnIds \ {request.via} : IsOpen(clients, c)
    /\ Len(sent) = 1
    /\ sent[1].to = request.via

----------------------------------------------------------------------------
(* C19: joinGame fails with "Game not found" when the game id is not in the   *)
(* registry and with "Game is not active" when the game's phase is not        *)
(* "playing" (in particular when it is "ended"), and only then; a failed join *)
(* adds no player to any game, leaves the player -> game index unchanged and  *)
(* emits no playerJoined event.                                               *)

C19_JoinFailures ==
    [][request'.op = "joinGame"
       => LET gi == request'.gameId
              absent == ~HasGame(games, gi)
              closed == HasGame(games, gi) /\ Phase(gi) /= "playing"
          IN  /\ absent => result' = "Game not found"
              /\ closed => result' = "Game is not active"
              /\ (~absent /\ ~closed) => result' = "ok"
              /\ result' /= "ok"
                 => /\ games' = games
                    /\ players' = players
                    /\ emitted' = <<>>
                    /\ sent' = <<>>
      ]_vars

\* a join was refused because the game had ended: the player is in no game
C19_Witness ==
    /\ request.op = "joinGame"
    /\ result = "Game is not active"
    /\ HasGame(games, request.gameId)
    /\ Phase(request.gameId) = "ended"
    /\ request.playerId \notin DOMAIN games[request.gameId].players
    /\ players[request.playerId] = 0
    /\ emitted = <<>>

----------------------------------------------------------------------------
(* C20: movePlayer and commitWorldState called with a player id that has no   *)
(* entry in the player -> game index fail with "Player not found", change no  *)
(* game, player, node or index entry and emit no event; when the request came *)
(* as a WebSocket message the error is sent to the connection it came from    *)
(* and to no other.                                                           *)

C20_UnknownPlayerRejected ==
    [][(/\ request'.op \in {"movePlayer", "commitWorldState"}
        /\ players[request'.playerId] = 0)
       => /\ result' = "Player not found"
          /\ games' = games
          /\ players' = players
          /\ gameId' = gameId
          /\ clients' = clients
          /\ emitted' = <<>>
          /\ sent' = IF request'.via \in ConnIds
                     THEN <<[to |-> request'.via, type |-> "error",
                             data |-> "Player not found"]>>
                     ELSE <<>>
      ]_vars

\* with a game running and two connections open, one of them sent a message
\* for a player nobody registered: it alone got the error
C20_Witness ==
    /\ request.op \in {"movePlayer", "commitWorldState"}
    /\ request.via \in ConnIds
    /\ players[request.playerId] = 0
    /\ result = "Player not found"
    /\ games /= <<>>
    /\ \A c \in ConnIds : IsOpen(clients, c)
    /\ Len(sent) = 1
    /\ sent[1].to = request.via
    /\ sent[1].type = "error"
    /\ emitted = <<>>

----------------------------------------------------------------------------
(* C21: every event the game service emits (playerJoined, playerMoved,        *)
(* worldStateCommitted, nodeCollected, gameStateUpdate, gameEnded) is sent,   *)
(* as the message of its listener, to every connection that is in the clients *)
(* Map and open when it is emitted, whoever sent the request; a connection    *)
(* found not open by a broadcast is removed from the Map and the open ones    *)
(* still get the message.                                                     *)

ServiceOps == {"createGame", "joinGame", "movePlayer", "commitWorldState", "timer"}

OpenClients(cl) == {cl[i].id : i \in {j \in 1..Len(cl) : cl[j].open}}

\* the messages of sent that carry event e to connection c
Deliveries(msgs, e, c) ==
    {i \in 1..Len(msgs) : /\ msgs[i].to = c
                          /\ msgs[i].type = MessageType(e.type)
                          /\ msgs[i].data = e}

C21_BroadcastToAllOpen ==
    [][request'.op \in ServiceOps
       => /\ \A k \in 1..Len(emitted') : \A c \in OpenClients(clients) :
                Deliveries(sent', emitted'[k], c) /= {}
          /\ \A i \in 1..Len(sent') : sent'[i].to \in OpenClients(clients)
          /\ IF emitted' = <<>> THEN clients' = clients
             ELSE clients' = SelectSeq(clients, LAMBDA e : e.open)
      ]_vars

\* connection c1 moved a player while c2 was open too: both got the
\* player_moved message, c1 got the answer besides
C21_Witness ==
    /\ request.op = "movePlayer"
    /\ request.via = "c1"
    /\ MoveApplied
    /\ \A c \in ConnIds :
          /\ IsOpen(clients, c)
          /\ Deliveries(sent, emitted[Len(emitted)], c) /= {}
    /\ \E i \in 1..Len(sent) : sent[i].to = "c1" /\ sent[i].type = "game_update"
    /\ \A i \in 1..Len(sent) : sent[i].type = "game_update" => sent[i].to = "c1"

----------------------------------------------------------------------------
(* C22: a connection that closes or errors leaves the clients Map and nothing *)
(* else changes: every other connection stays as it was, and no game, player, *)
(* node, index entry or timer is touched.  Players are not tied to            *)
(* connections: a move or a commit for a player of the index succeeds through *)
(* whatever connection or route it comes.                                     *)

C22_DisconnectTouchesOnlyTheMap ==
    [][/\ request'.op \in {"socketCloses", "closeEvent"}
          => /\ games' = games
             /\ players' = players
             /\ gameId' = gameId
             /\ emitted' = <<>>
             /\ sent' = <<>>
             /\ \A c \in ConnIds \ {request'.client} :
                   /\ HasClient(clients', c) <=> HasClient(clients, c)
                   /\ IsOpen(clients', c) <=> IsOpen(clients, c)
             /\ ~IsOpen(clients', request'.client)
             /\ request'.op = "closeEvent" => ~HasClient(clients', request'.client)
       /\ (request'.op \in {"movePlayer", "commitWorldState"}
             /\ players[request'.playerId] /= 0)
          => result' = "ok"
      ]_vars

\* the close event of c1 has run while c2 is open and a game is going on: the
\* game, its armed timer and the commit of its player are as they were
C22_Witness ==
    /\ request.op = "closeEvent"
    /\ request.client = "c1"
    /\ ~HasClient(clients, "c1")
    /\ IsOpen(clients, "c2")
    /\ \E gi \in GameNumbers :
          /\ Phase(gi) = "playing"
          /\ games[gi].timer
          /\ players["p1"] = gi
          /\ games[gi].players["p1"].commits = 1

----------------------------------------------------------------------------
(* C23: every operation - createGame, joinGame, movePlayer, commitWorldState, *)
(* a timer firing with or without the end of the game - changes at most one   *)
(* game: the players, nodes, tick, timeLeft, phase, counters and winner of    *)
(* every other game are what they were, and no game disappears.               *)

SameGame(gi) ==
    /\ games'[gi].players = games[gi].players
    /\ games'[gi].order = games[gi].order
    /\ games'[gi].nodes = games[gi].nodes
    /\ games'[gi].gameState = games[gi].gameState
    /\ games'[gi].timer = games[gi].timer

C23_OneGamePerOperation ==
    [][/\ Len(games') >= Len(games)
       /\ \A gi \in GameNumbers : \A gj \in GameNumbers \ {gi} :
             SameGame(gi) \/ SameGame(gj)
       /\ Len(games') > Len(games) => \A gi \in GameNumbers : SameGame(gi)
       /\ \A gi \in GameNumbers :
             ~SameGame(gi)
             => \/ request'.op = "timer" /\ request'.gameId = gi
                \/ request'.op = "joinGame" /\ request'.gameId = gi
                \/ /\ request'.op \in {"movePlayer", "commitWorldState"}
                   /\ players[request'.playerId] = gi
      ]_vars

\* a player with a record in game 1 and in game 2 was moved: its record in
\* game 2 moved, its record in game 1 stands at the start with full energy
C23_Witness ==
    /\ Len(games) = 2
    /\ MoveServed
    /\ MoveApplied
    /\ MoverGame = 2
    /\ request.playerId \in DOMAIN games[1].players
    /\ games[1].players[request.playerId].x = 400
    /\ games[1].players[request.playerId].energy = 200
    /\ Mover.x /= 400
    /\ Mover.energy = 199
    /\ Phase(1) = "playing"

----------------------------------------------------------------------------
(* C24: the phase of a game only moves forward.  A game is created "playing"  *)
(* (the code has no waiting phase), a playing game stays playing or becomes   *)
(* "ended", and an ended game stays ended, whatever requests and timer        *)
(* firings follow.                                                            *)

C24_PhaseOnlyForward ==
    /\ [](\A gi \in GameNumbers : Phase(gi) \in {"playing", "ended"})
    /\ [][/\ \A gi \in GameNumbers :
                /\ Phase(gi) = "ended" => Phase(gi)' = "ended"
                /\ Phase(gi) = "playing" => Phase(gi)' \in {"playing", "ended"}
          /\ \A gi \in 1..Len(games') :
                gi > Len(games) => games'[gi].gameState.gamePhase = "playing"
         ]_vars

\* a second game was created after the first had ended: the first is still
\* ended, the second playing
C24_Witness ==
    /\ Len(games) = 2
    /\ request.op = "createGame"
    /\ Phase(1) = "ended"
    /\ Phase(2) = "playing"
    /\ games[2].gameState.tick = 0

----------------------------------------------------------------------------
(* C25: a failure in the tick of one game - an exception of a listener that   *)
(* broadcasts during that tick included - is kept to that game: every other   *)
(* game that is playing still has its interval, so that it ticks to its end,  *)
(* and the server still serves requests.                                      *)

C25_TickFailureIsolated ==
    \A gi \in GameNumbers :
       Phase(gi) = "playing" => games[gi].timer /\ ~Crashed

----------------------------------------------------------------------------
(* C26: for every node of every game, id, position, type, value and size      *)
(* never change after generation and isActive only changes from true to        *)
(* false: no operation reactivates a node, adds a node or removes one.         *)

C26_NodesOnlyDeactivate ==
    [][\A gi \in GameNumbers :
          /\ Len(games'[gi].nodes) = Len(games[gi].nodes)
          /\ \A ni \in 1..Len(games[gi].nodes) :
                LET before == games[gi].nodes[ni]
                    after == games'[gi].nodes[ni]
                IN  /\ [after EXCEPT !.isActive = before.isActive] = before
                    /\ after.isActive => before.isActive
      ]_vars

\* a node was captured and a later operation was served: the nodes of the game
\* are still those generated, but for the flag of the captured one
C26_Witness ==
    /\ Len(games) >= 1
    /\ request.op \in {"commitWorldState", "timer", "joinGame"}
    /\ \E ni \in 1..Len(games[1].nodes) : ~games[1].nodes[ni].isActive
    /\ \E L \in Layouts :
          L = [ni \in 1..Len(games[1].nodes) |->
                  [games[1].nodes[ni] EXCEPT !.isActive = TRUE]]

----------------------------------------------------------------------------
(* C27: after an applied move, exactly the nodes that were active before the  *)
(* move and whose distance from the mover's new, clamped position is strictly *)
(* less than node.size + 25 are captured: each is now inactive and its effect *)
(* was applied once (one nodeCollected event, its reward paid once), several  *)
(* in one move when several are in range, and every other node is unchanged.  *)

\* the square of the distance between a player and a node
DistanceSquared(player, node) ==
    (player.x - node.x) * (player.x - node.x)
      + (player.y - node.y) * (player.y - node.y)

\* node ni of game gi is active and nearer than its size + 25 to `player`
\* (no distance to a NaN position is less than anything)
Reached(gi, ni, player) ==
    LET node == games[gi].nodes[ni]
    IN  /\ node.isActive
        /\ player.x /= NaN
        /\ player.y /= NaN
        /\ DistanceSquared(player, node) < (node.size + 25) * (node.size + 25)

C27_ExactlyTheNodesInRange ==
    [][(request'.op = "movePlayer" /\ MoveApplied')
       => \A gi \in {players[request'.playerId]} :
             LET OfType(types) ==
                    {ni \in 1..Len(games[gi].nodes) :
                        /\ games[gi].nodes[ni].type \in types
                        /\ Reached(gi, ni, MoverAfter)}
                 collected == EventsOf("nodeCollected", gi)'
             IN  /\ \A ni \in 1..Len(games[gi].nodes) :
                       games'[gi].nodes[ni] =
                          IF Reached(gi, ni, MoverAfter)
                          THEN [games[gi].nodes[ni] EXCEPT !.isActive = FALSE]
                          ELSE games[gi].nodes[ni]
                 /\ \A g \in GameNumbers \ {gi} : games'[g].nodes = games[g].nodes
                 \* one nodeCollected event for each captured node
                 /\ Cardinality(collected) = Cardinality(OfType(AllTypes))
                 /\ \A ni \in OfType(AllTypes) : \E i \in collected :
                       emitted'[i].nodeId = games[gi].nodes[ni].id
                 \* each reward paid once
                 /\ MoverAfter.score = MoverBefore.score
                       + 100 * Cardinality(OfType({"commit"}))
                       + SumValues(games[gi].nodes,
                                   OfType({"powerup", "blockchain"}))
                 /\ MoverAfter.commits = MoverBefore.commits
                       + Cardinality(OfType({"commit", "blockchain"}))
                 /\ MoverAfter.energy =
                       Min2(200, Max2(0, MoverBefore.energy - 1)
                                   + 2 * SumValues(games[gi].nodes,
                                                   OfType({"energy"})))
                 /\ games'[gi].gameState.totalCommits =
                       games[gi].gameState.totalCommits
                         + Cardinality(OfType({"commit"}))
      ]_vars

\* one move captured two nodes, 36 and 50 away from the mover, and left alone
\* a node exactly its size + 25 away (LayoutA at (50, 50)) or further
C27_Witness ==
    /\ MoveServed
    /\ MoveApplied
    /\ Mover.x /= NaN
    /\ Cardinality(EventsOf("nodeCollected", MoverGame)) = 2
    /\ \E ni \in 1..Len(games[MoverGame].nodes) :
          LET node == games[MoverGame].nodes[ni]
          IN  /\ ~node.isActive
              /\ DistanceSquared(Mover, node) >= node.size * node.size
    /\ \E ni \in 1..Len(games[MoverGame].nodes) :
          games[MoverGame].nodes[ni].isActive

\* a move ended exactly size + 25 away from an active node, which stays active
C27_WitnessBoundary ==
    /\ MoveServed
    /\ MoveApplied
    /\ Mover.x /= NaN
    /\ \E ni \in 1..Len(games[MoverGame].nodes) :
          LET node == games[MoverGame].nodes[ni]
          IN  /\ node.isActive
              /\ DistanceSquared(Mover, node)
                    = (node.size + 25) * (node.size + 25)

----------------------------------------------------------------------------
(* C28: an applied move first lowers the mover's energy by 0.5 (never below   *)
(* 0), then resolves the collisions with the active nodes at the new          *)
(* position, then emits exactly one playerMoved event that carries the        *)
(* player's final x, y and energy, the energy after the energy nodes of the   *)
(* same move; the nodeCollected and worldStateCommitted events of the move    *)
(* come before the playerMoved event.                                         *)

C28_ChargeCollideThenMoved ==
    [][(request'.op = "movePlayer" /\ MoveApplied')
       => \A gi \in {players[request'.playerId]} :
             LET charged == Max2(0, MoverBefore.energy - 1)
                 last == emitted'[Len(emitted')]
                 collected == EventsOf("nodeCollected", gi)'
             IN  /\ Cardinality(EventsOf("playerMoved", gi)') = 1
                 /\ last.type = "playerMoved"
                 /\ last.playerId = request'.playerId
                 /\ last.x = MoverAfter.x
                 /\ last.y = MoverAfter.y
                 /\ last.energy = MoverAfter.energy
                 /\ \A i \in 1..(Len(emitted') - 1) :
                       emitted'[i].type \in {"nodeCollected",
                                             "worldStateCommitted"}
                 \* the first capture already sees the charged energy
                 /\ collected /= {}
                    => LET first == emitted'[CHOOSE i \in collected :
                                               \A j \in collected : i <= j]
                       IN  first.playerEnergy =
                              IF first.nodeType = "energy"
                              THEN Min2(200, charged + 2 * first.value)
                              ELSE charged
                 /\ MoverAfter.energy =
                       Min2(200, charged
                                   + 2 * SumValues(games[gi].nodes,
                                                   Captured(gi, {"energy"})))
      ]_vars

\* a player with full energy moved onto an energy node of value 50: the move
\* is charged first (99.5), the reward is capped after it (100), and the
\* playerMoved event, after the events of the two captures, carries 100
C28_Witness ==
    /\ MoveServed
    /\ MoveApplied
    /\ Len(emitted) = 4
    /\ emitted[1].type = "nodeCollected"
    /\ emitted[1].nodeType = "energy"
    /\ emitted[1].playerEnergy = 200
    /\ emitted[2].type = "worldStateCommitted"
    /\ emitted[3].type = "nodeCollected"
    /\ emitted[4].type = "playerMoved"
    /\ emitted[4].energy = 200
    /\ emitted[4].x = 750
    /\ Mover.energy = 200

----------------------------------------------------------------------------
(* C29: a firing of the interval of a playing game emits a gameStateUpdate    *)
(* event if and only if the tick after the increment is a multiple of 5; the  *)
(* timer emits no gameStateUpdate at any other tick, nor for a game that is   *)
(* not playing.                                                               *)

C29_UpdateEveryFifthTick ==
    [][\A gi \in GameNumbers :
          TimerFired(gi)
          => LET updates == {i \in 1..Len(emitted') :
                               emitted'[i].type = "gameStateUpdate"}
                 due == /\ Phase(gi) = "playing"
                        /\ (games[gi].gameState.tick + 1) % 5 = 0
             IN  /\ Cardinality(updates) = IF due THEN 1 ELSE 0
                 /\ \A i \in updates :
                       /\ emitted'[i].gameId = gi
                       /\ emitted'[i].gameState.tick
                             = games[gi].gameState.tick + 1
      ]_vars

\* the tenth firing of a game of 11 seconds emitted its second update; the
\* ninth had emitted none and the game still plays
C29_Witness ==
    /\ request.op = "timer"
    /\ HasGame(games, request.gameId)
    /\ games[request.gameId].gameState.tick = 10
    /\ Phase(request.gameId) = "playing"
    /\ Len(emitted) = 1
    /\ emitted[1].type = "gameStateUpdate"
    /\ emitted[1].gameState.tick = 10
    /\ emitted[1].gameState.timeLeft = 1

----------------------------------------------------------------------------
(* C30: in every reachable state of every game a winner is recorded in        *)
(* gameState if and only if the phase is ended, and a recorded winner never   *)
(* changes, whatever is served afterwards.                                    *)

WinnerOf(gi) == games[gi].gameState.winner

C30_WinnerIffEnded ==
    /\ [](\A gi \in GameNumbers :
             /\ WinnerOf(gi) /= Undefined <=> Phase(gi) = "ended"
             /\ Phase(gi) = "ended"
                => /\ games[gi].winnerId \in DOMAIN games[gi].players
                   /\ WinnerOf(gi) = games[gi].players[games[gi].winnerId].name)
    /\ [][\A gi \in GameNumbers :
             WinnerOf(gi) /= Undefined
             => /\ WinnerOf(gi)' = WinnerOf(gi)
                /\ games'[gi].winnerId = games[gi].winnerId
         ]_vars

\* a game of two players ended on a tie, which bob won; ann then committed and
\* has the higher score, and the recorded winner is still bob
C30_Witness ==
    /\ Len(games) >= 1
    /\ Phase(1) = "ended"
    /\ request.op = "commitWorldState"
    /\ result = "ok"
    /\ DOMAIN games[1].players = {"p1", "p2"}
    /\ WinnerOf(1) = NameOf("p2")
    /\ games[1].players["p1"].score > games[1].players["p2"].score

----------------------------------------------------------------------------
(* C31: every gameStateUpdate event that reports timeLeft = 0 also reports    *)
(* the phase ended: no subscriber receives a snapshot in which the time has   *)
(* run out and the game is still playing, also when the ending tick is a      *)
(* multiple of 5.                                                             *)

C31_ExpiredSnapshotIsEnded ==
    \A i \in 1..Len(emitted) :
       (emitted[i].type = "gameStateUpdate" /\ emitted[i].gameState.timeLeft = 0)
       => emitted[i].gameState.gamePhase = "ended"

----------------------------------------------------------------------------
(* C32: once a game has ended, a commit for a player of that game changes no  *)
(* player's score or commits and neither totalCommits nor worldEnergy of the  *)
(* game, so that the recorded winner stays a player with the highest score.   *)

C32_NoCommitAfterEnd ==
    [][\A gi \in GameNumbers :
          (/\ Phase(gi) = "ended"
           /\ request'.op = "commitWorldState"
           /\ players[request'.playerId] = gi)
          => /\ games'[gi].players = games[gi].players
             /\ games'[gi].gameState.totalCommits
                   = games[gi].gameState.totalCommits
             /\ games'[gi].gameState.worldEnergy
                   = games[gi].gameState.worldEnergy
             /\ \A p \in DOMAIN games'[gi].players :
                   games'[gi].players[p].score
                      <= games'[gi].players[games'[gi].winnerId].score
      ]_vars

----------------------------------------------------------------------------
(* C33: one commit action of the client hook, which sends the commit both as  *)
(* a WebSocket game_commit message and as a POST to /api/game/commit, is      *)
(* accounted once by the server - the player's commits rise by 1 and its      *)
(* score by 100, not by 2 and 200 - in whatever order the two messages are    *)
(* handled.                                                                   *)

\* the commits and score the server holds for player p, over its games
RECURSIVE HeldBy(_, _, _)
HeldBy(p, field, gi) ==
    IF gi > Len(games) THEN 0
    ELSE (IF p \in DOMAIN games[gi].players
          THEN games[gi].players[p][field] ELSE 0)
         + HeldBy(p, field, gi + 1)

C33_HookCommitCountsOnce ==
    \A p \in PlayerIds :
       /\ HeldBy(p, "commits", 1) <= hook.commits[p]
       /\ HeldBy(p, "score", 1) <= 100 * hook.commits[p]
       /\ hook.inflight = {}
          => /\ HeldBy(p, "commits", 1) = hook.commits[p]
             /\ HeldBy(p, "score", 1) = 100 * hook.commits[p]

----------------------------------------------------------------------------
(* C34: every applied move changes the player's position: a movePlayer        *)
(* request whose clamped target is the player's current position (a player    *)
(* at x = 750 asked to go to x = 800) costs no energy and emits no            *)
(* playerMoved event.                                                         *)

C34_AppliedMoveChangesPosition ==
    [][(request'.op = "movePlayer" /\ players[request'.playerId] /= 0)
       => \A gi \in {players[request'.playerId]} :
             /\ (/\ MoverBefore.x = Clamp(50, 750, request'.x)
                 /\ MoverBefore.y = Clamp(50, 550, request'.y))
                => /\ MoverAfter.energy = MoverBefore.energy
                   /\ EventsOf("playerMoved", gi)' = {}
             /\ MoveApplied'
                => (MoverAfter.x /= MoverBefore.x \/ MoverAfter.y /= MoverBefore.y)
      ]_vars

----------------------------------------------------------------------------
(* C35: in every reachable state every entry of the player -> game index      *)
(* points to a game that is in the registry and whose players map holds that  *)
(* player id, so movePlayer and commitWorldState on an indexed id never fail  *)
(* with "Game not found" or "Player not in game".                             *)

C35_IndexPointsIntoRegistry ==
    /\ \A p \in PlayerIds :
          players[p] /= 0
          => /\ HasGame(games, players[p])
             /\ p \in DOMAIN games[players[p]].players
    /\ request.op \in {"movePlayer", "commitWorldState"}
       => /\ result \notin {"Game not found", "Player not in game"}
          /\ players[request.playerId] /= 0 <=> result = "ok"

\* p2 joined the game of p1 and its commit was served through the index
C35_Witness ==
    /\ request.op = "commitWorldState"
    /\ request.playerId = "p2"
    /\ result = "ok"
    /\ players["p2"] = 1
    /\ players["p1"] = 1
    /\ games[1].players["p2"].commits = 1

----------------------------------------------------------------------------
(* C36: in every reachable state of every game, totalCommits equals the sum   *)
(* of the commits counters of the game's players, under any sequence of       *)
(* explicit commits, commit-node captures, blockchain-node captures and       *)
(* joins.                                                                     *)

\* the sum of the commits of the players of game g
RECURSIVE CommitsFrom(_, _)
CommitsFrom(g, i) ==
    IF i > Len(g.order) THEN 0
    ELSE g.players[g.order[i]].commits + CommitsFrom(g, i + 1)

SumOfCommits(g) == CommitsFrom(g, 1)

\* the number of blockchain nodes of game g that were captured
CapturedBlockchain(g) ==
    Cardinality({ni \in 1..Len(g.nodes) :
                    g.nodes[ni].type = "blockchain" /\ ~g.nodes[ni].isActive})

C36_TotalIsSumOfCommits ==
    \A gi \in GameNumbers :
       games[gi].gameState.totalCommits = SumOfCommits(games[gi])

(* C36 as amended: totalCommits counts the commits accounted by               *)
(* commitWorldState, explicit or by a commit node; a blockchain node raises   *)
(* the player's commits only.  Every step adds to the sum of the players'     *)
(* commits what it adds to totalCommits plus its blockchain captures; a join  *)
(* leaves totalCommits alone and gives the joiner a record with 0 commits, in *)
(* place of the record that id had in the game if it had one.  So the sum is  *)
(* never above totalCommits plus the captured blockchain nodes.               *)

C36_TotalCountsCommitAccountings ==
    /\ [](\A gi \in GameNumbers :
             SumOfCommits(games[gi])
                <= games[gi].gameState.totalCommits
                     + CapturedBlockchain(games[gi]))
    /\ [][\A gi \in GameNumbers :
             LET before == games[gi]
                 after == games'[gi]
                 total == after.gameState.totalCommits
                            - before.gameState.totalCommits
                 chain == CapturedBlockchain(after) - CapturedBlockchain(before)
                 joiner == request'.playerId
             IN  IF request'.op = "joinGame"
                 THEN /\ total = 0
                      /\ chain = 0
                      /\ SumOfCommits(after) =
                            IF after.players = before.players
                               \/ joiner \notin DOMAIN before.players
                            THEN SumOfCommits(before)
                            ELSE SumOfCommits(before)
                                   - before.players[joiner].commits
                 ELSE SumOfCommits(after) = SumOfCommits(before) + total + chain
         ]_vars

\* a player captured a blockchain node, then committed: 2 commits of its own,
\* 1 in totalCommits
C36_Witness ==
    /\ Len(games) >= 1
    /\ request.op = "commitWorldState"
    /\ result = "ok"
    /\ CapturedBlockchain(games[1]) = 1
    /\ SumOfCommits(games[1]) = 2
    /\ games[1].gameState.totalCommits = 1

----------------------------------------------------------------------------
(* C37: in every reachable state of every game,                               *)
(* worldEnergy = 1000 + 50 * totalCommits.                                    *)

C37_WorldEnergyFollowsTotalCommits ==
    \A gi \in GameNumbers :
       games[gi].gameState.worldEnergy
          = 1000 + 50 * games[gi].gameState.totalCommits

\* an explicit commit after the capture of a commit node: 2 in totalCommits,
\* worldEnergy 1100
C37_Witness ==
    /\ Len(games) >= 1
    /\ request.op = "commitWorldState"
    /\ result = "ok"
    /\ \E ni \in 1..Len(games[1].nodes) :
          games[1].nodes[ni].type = "commit" /\ ~games[1].nodes[ni].isActive
    /\ games[1].gameState.totalCommits = 2
    /\ games[1].gameState.worldEnergy = 1100

----------------------------------------------------------------------------
(* C38: for every game created with a non-negative integer duration d,        *)
(* tick + timeLeft = d in every reachable state, so that tick never exceeds   *)
(* d, and the final tick of an ended game created with d >= 1 is exactly d.   *)

C38_TickPlusTimeLeftIsDuration ==
    \A gi \in GameNumbers :
       games[gi].gameTime >= 0
       => /\ games[gi].gameState.tick + games[gi].gameState.timeLeft
                = games[gi].gameTime
          /\ games[gi].gameState.tick <= games[gi].gameTime
          /\ (Phase(gi) = "ended" /\ games[gi].gameTime >= 1)
             => games[gi].gameState.tick = games[gi].gameTime

----------------------------------------------------------------------------
(* C39: when a player id that is in game A creates or joins another game B,   *)
(* the index entry of the id moves to B and every later movePlayer and        *)
(* commitWorldState for the id acts on B only: the id's record stays in A,    *)
(* unchanged by those requests, and still takes part in the winner            *)
(* computation of A.                                                          *)

====
